---- MODULE Spec2Model ----
(***************************************************************************)
(* Model of the Instagram scraping backend                                 *)
(* (src/instagram-story-downloader/backend/story_service.py and the route  *)
(* layer of src/instagram-media-downloader/backend/main.py).               *)
(*                                                                         *)
(* One thread of control runs the code of InstagramService step by step.   *)
(* A thread is a record th[t] holding its program counter, its stack of    *)
(* return labels and the local variables of the methods it is executing.   *)
(* The service object's fields (_loaded, _session_username,                *)
(* _needs_manual_refresh, the cookie jar of the requests session) and the  *)
(* session directory are shared variables.  The remote server and the      *)
(* environment (login outcome, file system) are nondeterministic choices.  *)
(***************************************************************************)
EXTENDS Integers, Sequences, FiniteSets, TLC

VARIABLES
    svc,                    \* story_service._service: "none" | "ready"
    loaded,                 \* InstagramService._loaded
    session_username,       \* InstagramService._session_username ("" = None)
    needs_manual_refresh,   \* InstagramService._needs_manual_refresh
    cookie,                 \* sessionid cookie of self._session (0 = empty)
    files,                  \* SESSION_DIR: owner -> session file
    env_user,               \* IG_USERNAME/IG_PASSWORD ("" = not both set)
    nlogin,                 \* number of successful loader.login() calls
    threads,                \* the threads of control that exist
    th                      \* thread -> program counter and locals

vars == <<svc, loaded, session_username, needs_manual_refresh, cookie,
          files, env_user, nlogin, threads, th>>

shared == <<loaded, session_username, needs_manual_refresh, cookie, files, nlogin>>

-----------------------------------------------------------------------------
(* Bounds of the model *)

MaxLogins == 2       \* successful re-logins per run
MaxFetch == 2        \* feed pages the server answers freely in one get_posts call
MaxPosts == 13       \* largest count a caller asks for
MaxCarousel == 3     \* longest carousel_media list of a parsed item
MaxLabels == 3       \* most labels in the host name of a proxied url
MaxBytes == 3        \* longest image file handed to optimize_image, in bytes

-----------------------------------------------------------------------------
(* Program constants *)

PAGE_SIZE == 12
MAX_POSTS_CAP == 500
MAX_DIMENSION == 16384

None == -1           \* Python's None where the other values are integers

\* the arguments of a call of optimize_image, what it read from the image,
\* the bytes the encoder gave, and the OptimizeResult it returned
NoOptimize == [data |-> <<>>, original_format |-> "", strip_metadata |-> FALSE,
               convert_webp |-> FALSE, width |-> 0, height |-> 0, encoded |-> <<>>,
               result |-> [data |-> <<>>, original_size |-> 0, optimized_size |-> 0,
                           original_format |-> "", output_format |-> "",
                           width |-> 0, height |-> 0]]

\* "main" is a thread of the pool that runs the synchronous routes, "timer"
\* is the thread of the event loop, which runs lifespan and _keepalive_loop
AllThreads == {"main", "timer"}

Owners == {"me", "old"}          \* user names that session files are named by

Statuses == {200, 401, 403, 404, 429, 500}

\* what one HTTP request can end in: a status code, or 0 for an exception
\* raised by requests (timeout, connection error)
Replies == Statuses \cup {0}

Min(a, b) == IF a < b THEN a ELSE b

-----------------------------------------------------------------------------
(* The session directory *)

NoFile == [present |-> FALSE, mtime |-> 0, cookie |-> 0, good |-> FALSE]

SessionFiles(fs) == {o \in Owners : fs[o].present}

\* sorted(SESSION_DIR.glob("session-*"), key=st_mtime, reverse=True)[0]:
\* the candidates for the first element of the sorted list
MostRecentMutAny(fs) == SessionFiles(fs)

MostRecent(fs) ==
    {o \in SessionFiles(fs) : \A p \in SessionFiles(fs) : fs[p].mtime <= fs[o].mtime}

Clock(fs) ==
    LET ms == {fs[o].mtime : o \in Owners}
    IN  (CHOOSE m \in ms : \A k \in ms : k <= m) + 1

\* self._loader.save_session_to_file(SESSION_DIR / f"session-{username}")
SaveSessionMutNoWrite(fs, user, c) == fs

SaveSession(fs, user, c) ==
    [fs EXCEPT ![user] = [present |-> TRUE, mtime |-> Clock(fs), cookie |-> c, good |-> TRUE]]

\* the sessionid cookie a successful login number n yields
FreshCookie(n) == 10 + n

-----------------------------------------------------------------------------
(* Threads *)

NoData == [json |-> FALSE, users |-> <<>>, items |-> <<>>,
           more_available |-> FALSE, next_max_id |-> 0, follower_count |-> 0]

NoApi == [method |-> "", path |-> "", first |-> None, status |-> None,
          param |-> 0, nreq |-> 0, nref |-> 0, rfok |-> FALSE, result |-> "none"]

\* steps lists what an execution of _refresh_session has done so far
NoRefresh == [result |-> "none", via |-> "", sel |-> "", steps |-> <<>>]

NoUser == [user_id |-> 0, username |-> "", is_private |-> FALSE, followers |-> 0]

\* users: the candidates the search answered with, kept while strategy 2 runs
NoResolve == [username |-> "", tried |-> <<>>, log |-> <<>>, users |-> <<>>]

\* a raised exception: its kind, the user name or the status code it carries
NoExc == [kind |-> "", name |-> "", code |-> 0]

Exc(kind, name, code) == [kind |-> kind, name |-> name, code |-> code]

\* what the server said on the page fetched last: more_available and
\* next_max_id
NoPage == [more_available |-> FALSE, next_max_id |-> 0]

\* failed_at: the number of the page request that raised, 0 when none has
NoPosts == [count |-> 0, max_posts |-> 0, all_posts |-> <<>>, max_id |-> 0, fetches |-> 0,
            full |-> 0, page |-> NoPage, failed_at |-> 0]

\* the dictionary the session_status property returns
NoStatus == [logged_in |-> FALSE, username |-> "", has_sessionid |-> FALSE,
             needs_manual_refresh |-> FALSE]

NoOut == [http |-> 0, err |-> NoExc, user |-> NoUser, media |-> <<>>, status |-> NoStatus]

\* the item argument of _parse_post_item / _parse_story_item
NoItem == [pk |-> 0, media_type |-> 0, video_versions |-> <<>>, image_versions |-> <<>>,
           caption |-> "None", taken_at |-> 0, carousel |-> <<>>]

\* the account a request is about, as the server has it while the request runs
NoAccount == [private |-> FALSE]

\* the url parameter of proxy_media: its scheme and the labels of its host
\* name, each label a sequence of words
NoUrl == [scheme |-> "", hostname |-> <<>>]

\* caught tells that an except clause of _enrich_user_info or get_posts has
\* swallowed an error of the taxonomy that a media fetch of the request raised.
\* tick tells how the last tick of _keepalive_loop ended: "" (no tick yet), "ok",
\* "failed" (keepalive returned False) or "error" (an exception was caught)
NoTick == ""

\* one call of keepalive: whether a session was loaded when it began, the
\* pings it sent, the status of the answer (0: the request raised), the calls
\* of _refresh_session it made and what the last of them returned
NoKeepalive == [began |-> FALSE, loaded |-> FALSE, pings |-> 0, status |-> None,
                nref |-> 0, refreshed |-> "none"]

IdleThread == [pc |-> "idle", stack |-> <<>>, ret |-> FALSE, op |-> "",
               api |-> NoApi, rf |-> NoRefresh, rs |-> NoResolve, user |-> NoUser,
               exc |-> NoExc, gp |-> NoPosts, out |-> NoOut, item |-> NoItem,
               acct |-> NoAccount, tick |-> NoTick, caught |-> FALSE, url |-> NoUrl,
               ka |-> NoKeepalive, opt |-> NoOptimize]

Call(r, target, cont) == [r EXCEPT !.pc = target, !.stack = <<cont>> \o @]

Return(r) == [r EXCEPT !.pc = Head(r.stack), !.stack = Tail(r.stack)]

At(t, label) == t \in threads /\ th[t].pc = label

Set(t, r) == th' = [th EXCEPT ![t] = r]

-----------------------------------------------------------------------------
(* Initial state: the module is imported, no InstagramService exists yet *)

InitFiles ==
    {fs \in [Owners -> [present : BOOLEAN, mtime : 0..3, cookie : 0..2, good : BOOLEAN]] :
        /\ fs["me"] = NoFile \/
             (fs["me"].present /\ fs["me"].mtime \in {1, 3} /\ fs["me"].cookie \in {0, 1}
                /\ (fs["me"].cookie = 0 => fs["me"].good))
        /\ fs["old"] = NoFile \/
             (fs["old"].present /\ fs["old"].mtime = 2 /\ fs["old"].cookie = 2)}

\* the module is imported: _service is None
InitService ==
    /\ svc = "none"
    /\ loaded = FALSE
    /\ session_username = ""
    /\ needs_manual_refresh = FALSE
    /\ cookie = 0
    /\ files \in InitFiles
    /\ env_user \in {"", "me"}
    /\ nlogin = 0
    /\ th = [t \in AllThreads |-> IdleThread]

Init ==
    /\ InitService
    /\ threads = {"main"}

-----------------------------------------------------------------------------
(* get_story_service / load_session *)

\* get_story_service(): _service is None -> InstagramService(); load_session()
GetStoryService(t) ==
    /\ At(t, "idle")
    /\ svc = "none"
    /\ svc' = "ready"
    /\ Set(t, Call(th[t], "ls_start", "boot_done"))
    /\ UNCHANGED <<shared, env_user, threads>>

BootDone(t) ==
    /\ At(t, "boot_done")
    /\ Set(t, IdleThread)
    /\ UNCHANGED <<svc, shared, env_user, threads>>

\* load_session, lines 56-76
LoadSessionStart(t) ==
    /\ At(t, "ls_start")
    /\ IF loaded
         THEN Set(t, Return([th[t] EXCEPT !.ret = TRUE]))
         ELSE IF SessionFiles(files) = {}
           THEN Set(t, Call(th[t], "tl_start", "ls_nofiles"))
           ELSE \E f \in MostRecent(files) :
                  Set(t, [th[t] EXCEPT !.pc = "ls_load", !.rf.sel = f])
    /\ UNCHANGED <<svc, shared, env_user, threads>>

\* load_session, lines 71-74
LoadSessionNoFiles(t) ==
    /\ At(t, "ls_nofiles")
    /\ Set(t, Return([th[t] EXCEPT !.rf = NoRefresh]))
    /\ UNCHANGED <<svc, shared, env_user, threads>>

\* load_session, lines 79-94 and 98-100
LoadSessionLoad(t) ==
    /\ At(t, "ls_load")
    /\ LET f == th[t].rf.sel IN
       IF files[f].present /\ files[f].good
         THEN /\ cookie' = files[f].cookie
              /\ session_username' = f
              /\ loaded' = TRUE
              /\ IF files[f].cookie = 0
                   THEN Set(t, Call(th[t], "tl_start", "ls_fin"))
                   ELSE Set(t, [th[t] EXCEPT !.pc = "ls_fin"])
         ELSE /\ Set(t, Return([th[t] EXCEPT !.ret = FALSE, !.rf = NoRefresh]))
              /\ UNCHANGED <<cookie, session_username, loaded>>
    /\ UNCHANGED <<svc, needs_manual_refresh, files, nlogin, env_user, threads>>

\* load_session, lines 95-97
LoadSessionFin(t) ==
    /\ At(t, "ls_fin")
    /\ Set(t, Return([th[t] EXCEPT !.ret = TRUE, !.rf = NoRefresh]))
    /\ UNCHANGED <<svc, shared, env_user, threads>>

-----------------------------------------------------------------------------
(* _try_login *)

LoginOutcomes == {"ok", "two_factor", "challenge_required", "connection", "other"}

\* which failures of loader.login() ask for a manual refresh (lines 124-134)
LoginNeedsManual(o) == o \in {"two_factor", "challenge_required"}

\* lines 104-108
TryLoginStart(t) ==
    /\ At(t, "tl_start")
    /\ IF env_user = ""
         THEN Set(t, Return([th[t] EXCEPT !.ret = FALSE]))
         ELSE Set(t, [th[t] EXCEPT !.pc = "tl_login"])
    /\ UNCHANGED <<svc, shared, env_user, threads>>

\* line 112 and the except clauses, lines 124-137
TryLoginLogin(t) ==
    /\ At(t, "tl_login")
    /\ \E o \in LoginOutcomes :
         IF o = "ok"
           THEN /\ nlogin < MaxLogins
                /\ nlogin' = nlogin + 1
                /\ cookie' = FreshCookie(nlogin + 1)
                /\ Set(t, [th[t] EXCEPT !.pc = "tl_set"])
                /\ UNCHANGED needs_manual_refresh
           ELSE /\ needs_manual_refresh' =
                     IF LoginNeedsManual(o) THEN TRUE ELSE needs_manual_refresh
                /\ Set(t, Return([th[t] EXCEPT !.ret = FALSE]))
                /\ UNCHANGED <<nlogin, cookie>>
    /\ UNCHANGED <<svc, loaded, session_username, files, env_user, threads>>

\* lines 113-116
TryLoginSet(t) ==
    /\ At(t, "tl_set")
    /\ session_username' = env_user
    /\ loaded' = TRUE
    /\ needs_manual_refresh' = FALSE
    /\ Set(t, [th[t] EXCEPT !.pc = "tl_save"])
    /\ UNCHANGED <<svc, cookie, files, nlogin, env_user, threads>>

\* lines 119-123; an exception of save_session_to_file lands in line 135
TryLoginSave(t) ==
    /\ At(t, "tl_save")
    /\ \E saved \in BOOLEAN :
         IF saved
           THEN /\ files' = SaveSession(files, env_user, cookie)
                /\ Set(t, Return([th[t] EXCEPT !.ret = TRUE, !.rf.via = "login"]))
           ELSE /\ files' = files
                /\ Set(t, Return([th[t] EXCEPT !.ret = FALSE]))
    /\ UNCHANGED <<svc, loaded, session_username, needs_manual_refresh, cookie,
                   nlogin, env_user, threads>>

-----------------------------------------------------------------------------
(* _refresh_session *)

\* what a thread needs to begin the body of _refresh_session: the method
\* takes no lock and tests no flag, lines 139-142
MayEnterRefreshMutLocked(t) ==
        \* thread u is executing the body of _refresh_session
    LET InRefresh(u) ==
            /\ u \in threads
            /\ \/ th[u].pc \in {"rf_after_login", "rf_load", "rf_fail"}
               \/ \E i \in 1..Len(th[u].stack) : th[u].stack[i] = "rf_after_login"
    IN
                               \A u \in threads \ {t} : ~InRefresh(u)

MayEnterRefresh(t) == TRUE

\* lines 141-145
RefreshStart(t) ==
    /\ At(t, "rf_start")
    /\ MayEnterRefresh(t)
    /\ loaded' = FALSE
    /\ Set(t, Call([th[t] EXCEPT !.rf = [NoRefresh EXCEPT !.steps = <<"login">>]],
                    "tl_start", "rf_after_login"))
    /\ UNCHANGED <<svc, session_username, needs_manual_refresh, cookie, files,
                   nlogin, env_user, threads>>

\* lines 145-146: whether _refresh_session goes on to the session files
\* after _try_login has returned ok
ReloadAfterLoginMutAlways(ok) == TRUE

ReloadAfterLogin(ok) == ~ok

\* lines 145-156
RefreshAfterLogin(t) ==
    /\ At(t, "rf_after_login")
    /\ LET r == [th[t] EXCEPT !.rf.steps =
                    Append(@, IF th[t].ret THEN "login_ok" ELSE "login_failed")] IN
       IF ~ReloadAfterLogin(th[t].ret)
         THEN Set(t, Return([r EXCEPT !.ret = TRUE, !.rf.result = "ok"]))
         ELSE IF SessionFiles(files) = {}
           THEN Set(t, [r EXCEPT !.pc = "rf_fail"])
           ELSE \E f \in MostRecent(files) :
                  Set(t, [r EXCEPT !.pc = "rf_load", !.rf.sel = f,
                                   !.rf.steps = Append(@, "file")])
    /\ UNCHANGED <<svc, shared, env_user, threads>>

\* lines 157-165
RefreshLoad(t) ==
    /\ At(t, "rf_load")
    /\ LET f == th[t].rf.sel IN
       IF files[f].present /\ files[f].good
         THEN /\ cookie' = files[f].cookie
              /\ session_username' = f
              /\ loaded' = TRUE
              /\ Set(t, Return([th[t] EXCEPT !.ret = TRUE, !.rf.result = "ok",
                                             !.rf.via = "file",
                                             !.rf.steps = Append(@, "file_ok")]))
         ELSE /\ Set(t, [th[t] EXCEPT !.pc = "rf_fail",
                                      !.rf.steps = Append(@, "file_failed")])
              /\ UNCHANGED <<cookie, session_username, loaded>>
    /\ UNCHANGED <<svc, needs_manual_refresh, files, nlogin, env_user, threads>>

\* lines 167-168
RefreshFail(t) ==
    /\ At(t, "rf_fail")
    /\ needs_manual_refresh' = TRUE
    /\ Set(t, Return([th[t] EXCEPT !.ret = FALSE, !.rf.result = "failed"]))
    /\ UNCHANGED <<svc, loaded, session_username, cookie, files, nlogin,
                   env_user, threads>>

-----------------------------------------------------------------------------
(* keepalive *)

\* line 191: if not self._loaded
KeepaliveSkipsMutNever(l) == FALSE

KeepaliveSkips(l) == ~l

\* lines 191-192
KeepaliveStart(t) ==
    /\ At(t, "ka_start")
    /\ LET r == [th[t] EXCEPT !.ka = [NoKeepalive EXCEPT !.began = TRUE,
                                                         !.loaded = loaded]] IN
       IF KeepaliveSkips(loaded)
         THEN Set(t, Return([r EXCEPT !.ret = FALSE]))
         ELSE Set(t, [r EXCEPT !.pc = "ka_ping"])
    /\ UNCHANGED <<svc, shared, env_user, threads>>

\* line 203: resp.status_code in (401, 403)
KeepaliveExpiredMutNever(status) == FALSE

KeepaliveExpired(status) == status \in {401, 403}

\* lines 194-212: the request for accounts/current_user/ and what follows
KeepalivePing(t) ==
    /\ At(t, "ka_ping")
    /\ \E rep \in Replies :
         LET r == [th[t] EXCEPT !.ka.pings = @ + 1, !.ka.status = rep] IN
         IF rep = 200
           THEN /\ needs_manual_refresh' = FALSE
                /\ Set(t, Return([r EXCEPT !.ret = TRUE]))
         ELSE IF KeepaliveExpired(rep)
           THEN /\ Set(t, Call([r EXCEPT !.rf = NoRefresh, !.ka.nref = @ + 1],
                               "rf_start", "ka_after_rf"))
                /\ UNCHANGED needs_manual_refresh
         ELSE /\ Set(t, Return([r EXCEPT !.ret = FALSE]))
              /\ UNCHANGED needs_manual_refresh
    /\ UNCHANGED <<svc, loaded, session_username, cookie, files, nlogin, env_user, threads>>

\* line 206: return self._refresh_session()
KeepaliveAfterRefresh(t) ==
    /\ At(t, "ka_after_rf")
    /\ Set(t, Return([th[t] EXCEPT !.rf = NoRefresh,
                                   !.ka.refreshed = th[t].rf.result]))
    /\ UNCHANGED <<svc, shared, env_user, threads>>

-----------------------------------------------------------------------------
(* _keepalive_loop and lifespan of main.py *)

\* lifespan, main.py lines 53-61: the service exists, the task is created
\* and waits in its first sleep
StartKeepaliveLoop(t) ==
    /\ At(t, "idle")
    /\ t = "timer"
    /\ svc = "ready"
    /\ Set(t, [th[t] EXCEPT !.pc = "kl_sleep", !.op = "keepalive"])
    /\ UNCHANGED <<svc, shared, env_user, threads>>

\* main.py line 38: asyncio.sleep(KEEPALIVE_INTERVAL) is over
KeepaliveLoopWake(t) ==
    /\ At(t, "kl_sleep")
    /\ Set(t, [th[t] EXCEPT !.pc = "kl_get"])
    /\ UNCHANGED <<svc, shared, env_user, threads>>

\* main.py lines 39-41: get_story_service() hands out the service, or an
\* exception comes out of it; then service.keepalive()
KeepaliveLoopGet(t) ==
    /\ At(t, "kl_get")
    /\ \E raised \in BOOLEAN :
         IF raised THEN Set(t, [th[t] EXCEPT !.pc = "kl_except"])
         ELSE Set(t, Call(th[t], "ka_start", "kl_after"))
    /\ UNCHANGED <<svc, shared, env_user, threads>>

\* main.py line 41: keepalive() has returned; its value is dropped
KeepaliveLoopAfter(t) ==
    /\ At(t, "kl_after")
    /\ Set(t, [th[t] EXCEPT !.pc = "kl_sleep", !.ret = FALSE, !.ka = NoKeepalive,
                            !.tick = IF th[t].ret THEN "ok" ELSE "failed"])
    /\ UNCHANGED <<svc, shared, env_user, threads>>

\* where the loop goes from its except clause, main.py lines 42-44
AfterKeepaliveErrorMutStops == "kl_dead"

AfterKeepaliveError == "kl_sleep"

\* main.py lines 42-44: except Exception: the warning is logged
KeepaliveLoopExcept(t) ==
    /\ At(t, "kl_except")
    /\ Set(t, [th[t] EXCEPT !.pc = AfterKeepaliveError, !.tick = "error"])
    /\ UNCHANGED <<svc, shared, env_user, threads>>

\* lifespan, main.py line 64: task.cancel() at shutdown; the CancelledError
\* is raised in the task where it waits, at the sleep of line 38
CancelKeepaliveLoop(t) ==
    /\ At(t, "kl_sleep")
    /\ Set(t, [th[t] EXCEPT !.pc = "kl_cancelled"])
    /\ UNCHANGED <<svc, shared, env_user, threads>>

-----------------------------------------------------------------------------
(* _api_get / _api_post *)

\* the payloads resp.json() can yield for a path; the payload of a response
\* is drawn when the caller reads it
Names == {"alice", "Alice", "bob"}

Lower(n) == IF n = "Alice" THEN "alice" ELSE n

Candidates == [username : Names, pk : {None, 1}, is_private : BOOLEAN]

SearchData ==
    {[NoData EXCEPT !.json = TRUE, !.users = us] :
        us \in {<<>>} \cup {<<c>> : c \in Candidates}
                      \cup {<<c, d>> : c \in Candidates, d \in Candidates}}

\* the variants of one medium: video_versions[*].url and
\* image_versions2.candidates[*].url, best first
NoVariants == <<>>

\* a feed or reel item as the server sends it.  caption is the text of the
\* caption object, "None" where the item has no caption object
Img == [pk |-> 0, media_type |-> 1, video_versions |-> NoVariants,
        image_versions |-> <<"i1", "i2">>, caption |-> "hello", taken_at |-> 5,
        carousel |-> <<>>]

Vid == [pk |-> 0, media_type |-> 2, video_versions |-> <<"v1", "v2">>,
        image_versions |-> <<"i1">>, caption |-> "None", taken_at |-> 5,
        carousel |-> <<>>]

\* an entry of carousel_media: it has a pk, a time and variants of its own
Sub(v, i) == [pk |-> 8, video_versions |-> v, image_versions |-> i, taken_at |-> 9]

Car(n) == [pk |-> 0, media_type |-> 8, video_versions |-> NoVariants,
           image_versions |-> NoVariants, caption |-> "hello", taken_at |-> 5,
           carousel |-> [i \in 1..n |->
                           Sub(IF i = 2 THEN <<"v1">> ELSE NoVariants, <<"i1", "i2">>)]]

PageShapes ==
    {<<>>, <<Img>>, <<Car(0)>>, <<Car(3), Vid>>, [i \in 1..PAGE_SIZE |-> Img]}

Tokens == {0, 1, 2}      \* next_max_id; 0 = absent

FeedData ==
    {[NoData EXCEPT !.json = TRUE, !.items = p, !.more_available = m, !.next_max_id = k] :
        p \in PageShapes, m \in BOOLEAN, k \in Tokens}

InfoData == {[NoData EXCEPT !.json = TRUE, !.follower_count = f] : f \in {0, 7}}

ReelsData == {[NoData EXCEPT !.json = TRUE, !.items = p] : p \in {<<>>, <<Img>>, <<Vid, Img>>}}

ApiData(path) ==
    CASE path = "search" -> SearchData
      [] path = "feed" -> FeedData
      [] path = "info" -> InfoData
      [] path = "reels" -> ReelsData

\* a call of _api_get / _api_post; param is the max_id parameter (0 = not sent)
ApiCall(r, method, path, param, cont) ==
    Call([r EXCEPT !.api = [NoApi EXCEPT !.method = method, !.path = path,
                                         !.param = param]],
         "api_send", cont)

\* resp.status_code in (401, 403)
IsAuthFailureMutAlso429(status) == status \in {401, 403, 429}

IsAuthFailure(status) == status \in {401, 403}

\* if self._refresh_session(): retry
RetryAfterRefreshMutAlways(ok) == TRUE

RetryAfterRefresh(ok) == ok

\* where control goes after the reissued request: on to the status checks
AfterRetryMutLoop == "api_chk"

AfterRetry == "api_fin"

\* lines 233-237: what the final response turns into
ApiResult(status) ==
    IF status = 429 THEN "rate_limit"
    ELSE IF status # 200 THEN "upstream"
    ELSE "ok"

\* the first self._session.get / self._session.post, lines 220-224 / 241-245
ApiSend(t) ==
    /\ At(t, "api_send")
    /\ \E rep \in Replies :
         IF rep = 0
           THEN Set(t, Return([th[t] EXCEPT !.api.nreq = 1, !.api.first = 0,
                                            !.api.result = "timeout"]))
           ELSE Set(t, [th[t] EXCEPT !.pc = "api_chk", !.api.nreq = 1,
                                     !.api.first = rep, !.api.status = rep])
    /\ UNCHANGED <<svc, shared, env_user, threads>>

\* lines 225-226 / 246-247
ApiCheck(t) ==
    /\ At(t, "api_chk")
    /\ IF IsAuthFailure(th[t].api.status)
         THEN Set(t, Call([th[t] EXCEPT !.api.nref = @ + 1, !.rf = NoRefresh],
                          "rf_start", "api_after_rf"))
         ELSE Set(t, [th[t] EXCEPT !.pc = "api_fin"])
    /\ UNCHANGED <<svc, shared, env_user, threads>>

\* line 226 / 247: the value _refresh_session returned
ApiAfterRefresh(t) ==
    /\ At(t, "api_after_rf")
    /\ Set(t, [th[t] EXCEPT !.pc = IF RetryAfterRefresh(th[t].ret)
                                     THEN "api_retry" ELSE "api_fin",
                            !.api.rfok = th[t].ret, !.ret = FALSE, !.rf = NoRefresh])
    /\ UNCHANGED <<svc, shared, env_user, threads>>

\* lines 228-232 / 249-253
ApiRetry(t) ==
    /\ At(t, "api_retry")
    /\ \E rep \in Replies :
         IF rep = 0
           THEN Set(t, Return([th[t] EXCEPT !.api.nreq = @ + 1, !.api.status = 0,
                                            !.api.result = "timeout"]))
           ELSE Set(t, [th[t] EXCEPT !.pc = AfterRetry, !.api.nreq = @ + 1,
                                     !.api.status = rep])
    /\ UNCHANGED <<svc, shared, env_user, threads>>

\* lines 233-237 / 254-258
ApiFin(t) ==
    /\ At(t, "api_fin")
    /\ LET res == ApiResult(th[t].api.status) IN
       IF res = "ok"
         THEN \E json \in BOOLEAN :
                Set(t, Return([th[t] EXCEPT !.api.result = IF json THEN "ok" ELSE "bad_json"]))
         ELSE Set(t, Return([th[t] EXCEPT !.api.result = res]))
    /\ UNCHANGED <<svc, shared, env_user, threads>>

\* the exception an _api_get / _api_post that did not return raised
ApiError(api) ==
    CASE api.result = "rate_limit" -> Exc("RateLimited", "", 429)
      [] api.result = "upstream" -> Exc("UpstreamError", "", api.status)
      [] api.result = "timeout" -> Exc("Timeout", "", 0)
      [] api.result = "bad_json" -> Exc("BadJson", "", 200)
      [] OTHER -> NoExc

\* the error conditions of the taxonomy
Taxonomy == {"NotFound", "PrivateAccount", "RateLimited", "UpstreamError",
             "SessionMissing", "Timeout"}

\* the call ended in an error of the taxonomy, which an except clause that
\* does not raise again then swallows
Swallowed(api) == ApiError(api).kind \in Taxonomy

-----------------------------------------------------------------------------
(* _resolve_user *)

Targets == {"alice", "Alice"}      \* user names a caller asks for

UserId(n) == IF Lower(n) = "alice" THEN 1 ELSE 2

\* the strategy that follows strategy k in the text of _resolve_user
Following(k) == IF k = 1 THEN "rs_m2" ELSE IF k = 2 THEN "rs_m3" ELSE "rs_end"

\* where control goes when strategy k ends in outcome o: the return
\* statements, the raise statements and the except clauses of lines 270-357
AfterStrategyMutNotFoundFallsThrough(k, o) ==
    IF o = "found" THEN "return" ELSE Following(k)

AfterStrategyMutFoundContinues(k, o) ==
    IF o = "found" /\ k = 1 THEN Following(k)
    ELSE IF o = "found" THEN "return"
    ELSE IF o = "not_found" THEN "raise"
    ELSE Following(k)

AfterStrategyMutErrorRaises(k, o) ==
    IF o = "found" THEN "return"
    ELSE IF o \in {"not_found", "error"} THEN "raise"
    ELSE Following(k)

AfterStrategyMutExhaustedReturns(k, o) ==
    IF o = "found" THEN "return"
    ELSE IF o = "not_found" THEN "raise"
    ELSE IF k = 3 THEN "return"
    ELSE Following(k)

AfterStrategy(k, o) ==
    IF o = "found" THEN "return"
    ELSE IF o = "not_found" THEN "raise"
    ELSE Following(k)

EndStrategy(r, k, o, why, u) ==
    LET r1 == [r EXCEPT !.rs.log = Append(@, [k |-> k, outcome |-> o, why |-> why])]
        nxt == AfterStrategy(k, o)
    IN  IF nxt = "return" THEN Return([r1 EXCEPT !.user = u])
        ELSE IF nxt = "raise"
          THEN Return([r1 EXCEPT !.exc = Exc("NotFound", r.rs.username, 0)])
        ELSE [r1 EXCEPT !.pc = nxt]

\* lines 266-267
ResolveStart(t) ==
    /\ At(t, "rs_start")
    /\ IF ~loaded
         THEN Set(t, Return([th[t] EXCEPT !.exc = Exc("SessionMissing", "", 0)]))
         ELSE Set(t, [th[t] EXCEPT !.pc = "rs_m1"])
    /\ UNCHANGED <<svc, shared, env_user, threads>>

\* method 1, lines 270-285: instaloader.Profile.from_username
ResolveM1(t) ==
    /\ At(t, "rs_m1")
    /\ LET r == [th[t] EXCEPT !.rs.tried = Append(@, 1)]
           n == th[t].rs.username
       IN  \/ \E fol \in {0, 7} :
                Set(t, EndStrategy(r, 1, "found", "",
                         [user_id |-> UserId(n), username |-> Lower(n),
                          is_private |-> th[t].acct.private, followers |-> fol]))
           \/ Set(t, EndStrategy(r, 1, "not_found", "ProfileNotExistsException", NoUser))
           \/ Set(t, EndStrategy(r, 1, "error", "Exception", NoUser))
    /\ UNCHANGED <<svc, shared, env_user, threads>>

\* method 2, line 289: the search call
ResolveM2(t) ==
    /\ At(t, "rs_m2")
    /\ Set(t, ApiCall([th[t] EXCEPT !.rs.tried = Append(@, 2)],
                       "GET", "search", 0, "rs_m2_ret"))
    /\ UNCHANGED <<svc, shared, env_user, threads>>

\* index of the first candidate whose user name equals n ignoring case, or 0
FirstMatchMutAny(users, n) == IF users = <<>> THEN 0 ELSE 1

FirstMatch(users, n) ==
    LET hits == {i \in 1..Len(users) : Lower(users[i].username) = Lower(n)}
    IN  IF hits = {} THEN 0 ELSE CHOOSE i \in hits : \A j \in hits : i <= j

\* the search results the server can send for the account of a request: an
\* entry that names the account says truly whether it is private
SearchResults(n, acct) ==
    {d \in ApiData("search") :
        \A i \in 1..Len(d.users) :
            Lower(d.users[i].username) = Lower(n) => d.users[i].is_private = acct.private}

\* method 2, lines 290-304
ResolveM2Ret(t) ==
    /\ At(t, "rs_m2_ret")
    /\ LET r0 == [th[t] EXCEPT !.api = NoApi] IN
       IF th[t].api.result # "ok"
         THEN Set(t, EndStrategy(r0, 2, "error", th[t].api.result, NoUser))
       ELSE \E d \in SearchResults(r0.rs.username, r0.acct) :
         LET users == d.users
             r == [r0 EXCEPT !.rs.users = users]
             i == FirstMatch(users, r.rs.username)
         IN  IF i = 0 THEN Set(t, EndStrategy(r, 2, "no_match", "", NoUser))
             ELSE IF users[i].pk = None
               THEN Set(t, EndStrategy(r, 2, "error", "KeyError", NoUser))
             ELSE Set(t, EndStrategy(r, 2, "found", "",
                           [user_id |-> users[i].pk, username |-> users[i].username,
                            is_private |-> users[i].is_private, followers |-> 0]))
    /\ UNCHANGED <<svc, shared, env_user, threads>>

\* method 3, lines 307-355: scrape of the public profile page
ResolveM3(t) ==
    /\ At(t, "rs_m3")
    /\ LET r == [th[t] EXCEPT !.rs.tried = Append(@, 3), !.rs.users = <<>>]
           n == th[t].rs.username
       IN  \E rep \in Replies, match \in BOOLEAN :
             IF rep = 0 THEN Set(t, EndStrategy(r, 3, "error", "timeout", NoUser))
             ELSE IF rep = 200 /\ match
               THEN Set(t, EndStrategy(r, 3, "found", "",
                          [user_id |-> UserId(n), username |-> n,
                           is_private |-> FALSE, followers |-> 0]))
             ELSE IF rep = 200 THEN Set(t, EndStrategy(r, 3, "no_match", "", NoUser))
             ELSE IF rep = 404 THEN Set(t, EndStrategy(r, 3, "not_found", "404", NoUser))
             ELSE Set(t, EndStrategy(r, 3, "bad_status", "", NoUser))
    /\ UNCHANGED <<svc, shared, env_user, threads>>

\* line 357
ResolveEnd(t) ==
    /\ At(t, "rs_end")
    /\ Set(t, Return([th[t] EXCEPT !.exc = Exc("NotFound", th[t].rs.username, 0)]))
    /\ UNCHANGED <<svc, shared, env_user, threads>>

-----------------------------------------------------------------------------
(* _enrich_user_info *)

\* lines 361-365
EnrichStart(t) ==
    /\ At(t, "en_start")
    /\ IF th[t].user.followers # 0
         THEN Set(t, Return(th[t]))
         ELSE Set(t, ApiCall(th[t], "GET", "info", 0, "en_ret"))
    /\ UNCHANGED <<svc, shared, env_user, threads>>

\* lines 366-376
EnrichRet(t) ==
    /\ At(t, "en_ret")
    /\ IF th[t].api.result = "ok"
         THEN \E d \in ApiData("info") :
                Set(t, Return([th[t] EXCEPT !.user.followers = d.follower_count,
                                            !.api = NoApi]))
         ELSE Set(t, Return([th[t] EXCEPT !.api = NoApi, !.caught = @ \/ Swallowed(th[t].api)]))
    /\ UNCHANGED <<svc, shared, env_user, threads>>

-----------------------------------------------------------------------------
(* Media items *)

\* bool(item.get("video_versions")), lines 413 and 522
HasVideoMutNever(item) == FALSE

HasVideo(item) == item.video_versions # NoVariants

\* lines 414-421 and 524-531: the url of the medium
MediaUrl(item) ==
    IF HasVideo(item) THEN item.video_versions[1]
    ELSE IF item.image_versions # NoVariants THEN item.image_versions[1]
    ELSE ""

\* lines 414-421 and 524-531: the thumbnail ("None" = Python's None)
Thumbnail(item) ==
    IF HasVideo(item) /\ item.image_versions # NoVariants THEN item.image_versions[1]
    ELSE "None"

\* datetime.fromtimestamp(taken_at, tz=timezone.utc).isoformat()
IsoFormat(taken_at) == <<"iso", taken_at>>

\* caption_obj = item.get("caption") or {}; caption_obj.get("text", "")
CaptionText(item) == IF item.caption = "None" THEN "" ELSE item.caption

\* _extract_media, lines 510-549 (username and like_count, which are handed
\* through unchanged, are left out)
ExtractMedia(item, timestamp, caption, post_id, carousel_index, carousel_total) ==
    [id |-> <<post_id, carousel_index>>,
     post_id |-> post_id,
     media_type |-> IF HasVideo(item) THEN "video" ELSE "image",
     url |-> MediaUrl(item),
     thumbnail_url |-> Thumbnail(item),
     timestamp |-> timestamp,
     caption |-> caption,
     carousel_index |-> carousel_index,
     carousel_total |-> carousel_total]

\* _parse_post_item, lines 484-508
ParsePostItemMutSubFields(item) ==
    IF item.media_type = 8
      THEN [i \in 1..Len(item.carousel) |->
              ExtractMedia(item.carousel[i], IsoFormat(item.carousel[i].taken_at),
                           CaptionText(item), item.carousel[i].pk, i - 1,
                           Len(item.carousel))]
      ELSE <<ExtractMedia(item, IsoFormat(item.taken_at), CaptionText(item),
                          item.pk, None, None)>>

ParsePostItem(item) ==
    IF item.media_type = 8
      THEN [i \in 1..Len(item.carousel) |->
              ExtractMedia(item.carousel[i], IsoFormat(item.taken_at),
                           CaptionText(item), item.pk, i - 1, Len(item.carousel))]
      ELSE <<ExtractMedia(item, IsoFormat(item.taken_at), CaptionText(item),
                          item.pk, None, None)>>

\* _parse_story_item, lines 412-433 (username is left out)
ParseStoryItem(item) ==
    [id |-> item.pk,
     media_type |-> IF HasVideo(item) THEN "video" ELSE "image",
     url |-> MediaUrl(item),
     thumbnail_url |-> Thumbnail(item),
     timestamp |-> IsoFormat(item.taken_at)]

\* for item in items: all_posts.extend(self._parse_post_item(item, username))
RECURSIVE ParseItems(_)
ParseItems(items) ==
    IF items = <<>> THEN <<>>
    ELSE ParsePostItem(Head(items)) \o ParseItems(Tail(items))

\* the items of the n-th page the server sends: the server numbers its posts
Stamp(items, n) == [i \in 1..Len(items) |-> [items[i] EXCEPT !.pk = 100 * n + i]]

\* Python's s[:n]
SliceMutAll(s, n) == s

Slice(s, n) ==
    IF n >= 0 THEN SubSeq(s, 1, Min(n, Len(s)))
    ELSE SubSeq(s, 1, IF Len(s) + n > 0 THEN Len(s) + n ELSE 0)

\* the payload items the parsers are run on
VideoVariants == {NoVariants, <<"v1", "v2">>}

ImageVariants == {NoVariants, <<"i1", "i2">>}

SubItems == {Sub(v, i) : v \in VideoVariants, i \in ImageVariants}

Carousels == UNION {[1..n -> SubItems] : n \in 0..MaxCarousel}

PayloadItems ==
    {[pk |-> 7, media_type |-> m, video_versions |-> v, image_versions |-> i,
      caption |-> c, taken_at |-> 5, carousel |-> car] :
        m \in {1, 2, 8}, v \in VideoVariants, i \in ImageVariants,
        c \in {"None", "", "hello"}, car \in Carousels}

\* one call of _parse_post_item on an item of a feed page
ParsePost(t) ==
    /\ At(t, "idle")
    /\ \E item \in PayloadItems :
         Set(t, [th[t] EXCEPT !.pc = "done", !.op = "parse_post", !.item = item,
                              !.out.media = ParsePostItem(item)])
    /\ UNCHANGED <<svc, shared, env_user, threads>>

\* one call of _parse_story_item on an item of a reel
ParseStory(t) ==
    /\ At(t, "idle")
    /\ \E item \in PayloadItems :
         Set(t, [th[t] EXCEPT !.pc = "done", !.op = "parse_story", !.item = item,
                              !.out.media = <<ParseStoryItem(item)>>])
    /\ UNCHANGED <<svc, shared, env_user, threads>>

-----------------------------------------------------------------------------
(* optimize_image of optimizer.py *)

\* the OptimizeResult of optimize_image for an image it accepts: encoded is
\* what the encoder of the chosen branch gave (_optimize_webp, pngquant,
\* _optimize_jpeg or _optimize_generic); the encoder's bytes are dropped for
\* the input's only when they are longer than the input
optimize_imageMutStrict(data, original_format, convert_webp, width, height, encoded) ==
    LET original_size == Len(data)
        output_format ==
            IF convert_webp THEN "WEBP"
            ELSE IF original_format = "PNG" THEN "PNG"
            ELSE IF original_format = "JPEG" THEN "JPEG"
            ELSE original_format
        larger == ~convert_webp /\ Len(encoded) > original_size
        optimized_data == IF larger THEN data ELSE encoded
    IN  [data |-> optimized_data,
         original_size |-> original_size,
         optimized_size |-> Len(optimized_data),
         original_format |-> original_format,
         output_format |-> IF larger THEN original_format ELSE output_format,
         width |-> width, height |-> height]

\* the OptimizeResult of optimize_image for an image it accepts: encoded is
\* what the encoder of the chosen branch gave (_optimize_webp, pngquant,
\* _optimize_jpeg or _optimize_generic); lines 325-327 drop it for the input
\* when no conversion was asked for and it is not shorter than the input
optimize_image(data, original_format, convert_webp, width, height, encoded) ==
    LET original_size == Len(data)
        output_format ==
            IF convert_webp THEN "WEBP"
            ELSE IF original_format = "PNG" THEN "PNG"
            ELSE IF original_format = "JPEG" THEN "JPEG"
            ELSE original_format
        larger == ~convert_webp /\ Len(encoded) >= original_size
        optimized_data == IF larger THEN data ELSE encoded
    IN  [data |-> optimized_data,
         original_size |-> original_size,
         optimized_size |-> Len(optimized_data),
         original_format |-> original_format,
         output_format |-> IF larger THEN original_format ELSE output_format,
         width |-> width, height |-> height]

\* one call of optimize_image: the image is opened and its format and size
\* read; an image wider or higher than MAX_DIMENSION raises ValueError,
\* any other is encoded and the result returned. The encoders are programs
\* and libraries outside the repository: what they give is any byte string
OptimizeImage(t) ==
    /\ At(t, "idle")
    /\ \E data \in UNION {[1..n -> {0, 1}] : n \in 1..MaxBytes},
          encoded \in UNION {[1..n -> {0, 1}] : n \in 1..(MaxBytes + 1)},
          original_format \in {"PNG", "JPEG", "GIF", "WEBP"},
          strip_metadata \in BOOLEAN, convert_webp \in BOOLEAN,
          width \in {MAX_DIMENSION, MAX_DIMENSION + 1},
          height \in {MAX_DIMENSION, MAX_DIMENSION + 1} :
         LET call == [NoOptimize EXCEPT !.data = data,
                                        !.original_format = original_format,
                                        !.strip_metadata = strip_metadata,
                                        !.convert_webp = convert_webp,
                                        !.width = width, !.height = height]
         IN  IF width > MAX_DIMENSION \/ height > MAX_DIMENSION
               THEN Set(t, [th[t] EXCEPT !.pc = "done", !.op = "optimize",
                                         !.opt = call,
                                         !.exc = [NoExc EXCEPT !.kind = "ValueError"]])
               ELSE Set(t, [th[t] EXCEPT !.pc = "done", !.op = "optimize",
                                         !.opt = [call EXCEPT
                                            !.encoded = encoded,
                                            !.result = optimize_image(data, original_format,
                                                          convert_webp, width, height, encoded)]])
    /\ UNCHANGED <<svc, shared, env_user, threads>>

-----------------------------------------------------------------------------
(* get_posts *)

\* len(all_posts) < max_posts
MorePostsWantedMutOffByOne(have, max_posts) == have <= max_posts

MorePostsWanted(have, max_posts) == have < max_posts

\* lines 444-449
GetPostsResolved(t) ==
    /\ At(t, "gp_resolved")
    /\ LET r == [th[t] EXCEPT !.rs = NoResolve] IN
       IF th[t].exc # NoExc
         THEN Set(t, [r EXCEPT !.pc = "raise"])
         ELSE IF th[t].user.is_private
           THEN Set(t, [r EXCEPT !.pc = "raise",
                                 !.exc = Exc("PrivateAccount", th[t].rs.username, 0)])
           ELSE Set(t, Call(r, "en_start", "gp_loop"))
    /\ UNCHANGED <<svc, shared, env_user, threads>>

\* the number of the page that is requested after n pages; the pages past
\* MaxFetch all count as page MaxFetch + 1
CountFetch(n) == IF n <= MaxFetch THEN n + 1 ELSE n

\* what the server can answer the n-th page request with: any page for the
\* first MaxFetch requests; from then on only pages whose items yield no
\* media, of which it may send any number
FeedAnswers(n) ==
    IF n <= MaxFetch THEN ApiData("feed")
    ELSE {d \in ApiData("feed") : ParseItems(d.items) = <<>>}

\* lines 455-464: the loop test and the page request
GetPostsLoop(t) ==
    /\ At(t, "gp_loop")
    /\ IF MorePostsWanted(Len(th[t].gp.all_posts), th[t].gp.max_posts)
         THEN Set(t, ApiCall([th[t] EXCEPT !.gp.fetches = CountFetch(@)],
                             "GET", "feed", th[t].gp.max_id, "gp_page"))
         ELSE Set(t, [th[t] EXCEPT !.pc = "gp_ret"])
    /\ UNCHANGED <<svc, shared, env_user, threads>>

\* line 477: max_id = data.get("next_max_id")
NextMaxIdMutFirst(d) == IF d.next_max_id = 0 THEN 0 ELSE 1

NextMaxId(d) == d.next_max_id

\* lines 462-464: where control goes when the page request raised: the
\* except clause logs and breaks
AfterPageErrorMutRaises == "raise"

AfterPageError == "gp_ret"

\* lines 462-480: the page that came back
GetPostsPage(t) ==
    /\ At(t, "gp_page")
    /\ LET r == [th[t] EXCEPT !.api = NoApi] IN
       IF th[t].api.result # "ok"
         THEN Set(t, [r EXCEPT !.pc = AfterPageError, !.gp.failed_at = r.gp.fetches,
                               !.caught = @ \/ Swallowed(th[t].api)])
       ELSE \E d \in FeedAnswers(r.gp.fetches) :
         LET got == ParseItems(Stamp(d.items, r.gp.fetches))
             r0 == [r EXCEPT !.gp.page = [more_available |-> d.more_available,
                                          next_max_id |-> d.next_max_id]]
             r1 == [r0 EXCEPT !.gp.all_posts = @ \o got,
                              !.gp.full = IF Len(got) >= PAGE_SIZE THEN @ + 1 ELSE @]
         IN  IF d.items = <<>> THEN Set(t, [r0 EXCEPT !.pc = "gp_ret"])
             ELSE IF ~d.more_available THEN Set(t, [r1 EXCEPT !.pc = "gp_ret"])
             ELSE IF NextMaxId(d) = 0
               THEN Set(t, [r1 EXCEPT !.pc = "gp_ret", !.gp.max_id = 0])
             ELSE Set(t, [r1 EXCEPT !.pc = "gp_loop", !.gp.max_id = NextMaxId(d)])
    /\ UNCHANGED <<svc, shared, env_user, threads>>

\* line 482, and the response of the route, main.py lines 145-155
GetPostsReturn(t) ==
    /\ At(t, "gp_ret")
    /\ Set(t, [th[t] EXCEPT !.pc = "done",
                            !.out = [NoOut EXCEPT !.http = 200, !.user = th[t].user,
                                       !.media = Slice(th[t].gp.all_posts, th[t].gp.max_posts)]])
    /\ UNCHANGED <<svc, shared, env_user, threads>>

-----------------------------------------------------------------------------
(* get_stories *)

\* lines 387-395
GetStoriesResolved(t) ==
    /\ At(t, "gs_resolved")
    /\ LET r == [th[t] EXCEPT !.rs = NoResolve] IN
       IF th[t].exc # NoExc
         THEN Set(t, [r EXCEPT !.pc = "raise"])
         ELSE IF th[t].user.is_private
           THEN Set(t, [r EXCEPT !.pc = "raise",
                                 !.exc = Exc("PrivateAccount", th[t].rs.username, 0)])
           ELSE Set(t, ApiCall(r, "POST", "reels", 0, "gs_reels"))
    /\ UNCHANGED <<svc, shared, env_user, threads>>

\* lines 392-409
GetStoriesReels(t) ==
    /\ At(t, "gs_reels")
    /\ IF th[t].api.result # "ok"
         THEN Set(t, [th[t] EXCEPT !.pc = "raise", !.exc = ApiError(th[t].api),
                                   !.api = NoApi])
         ELSE \E d \in ApiData("reels") :
                Set(t, Call([th[t] EXCEPT !.api = NoApi, !.gp.all_posts =
                                [i \in 1..Len(d.items) |->
                                   ParseStoryItem(Stamp(d.items, 1)[i])]],
                            "en_start", "gs_ret"))
    /\ UNCHANGED <<svc, shared, env_user, threads>>

\* line 410, and the response of the route, main.py lines 114-124
GetStoriesReturn(t) ==
    /\ At(t, "gs_ret")
    /\ Set(t, [th[t] EXCEPT !.pc = "done",
                            !.out = [NoOut EXCEPT !.http = 200, !.user = th[t].user,
                                                  !.media = th[t].gp.all_posts]])
    /\ UNCHANGED <<svc, shared, env_user, threads>>

-----------------------------------------------------------------------------
(* The routes of main.py *)

\* the counts a caller asks for: none, one, a page, more than a page
Counts == {0, 1, PAGE_SIZE, MaxPosts}

\* the exceptions the service raises as ValueError
ValueErrors == {"NotFound", "PrivateAccount", "SessionMissing", "RateLimited",
                "UpstreamError", "BadJson"}

\* except ValueError -> 404, except Exception -> 500
HttpFor(kind) == IF kind \in ValueErrors THEN 404 ELSE 500

\* the session_status property, story_service.py lines 175-187
SessionStatusMutLoggedIn ==
    [logged_in |-> TRUE,
     username |-> session_username,
     has_sessionid |-> loaded /\ cookie # 0,
     needs_manual_refresh |-> needs_manual_refresh]

SessionStatus ==
    [logged_in |-> loaded,
     username |-> session_username,
     has_sessionid |-> loaded /\ cookie # 0,
     needs_manual_refresh |-> needs_manual_refresh]

\* GET /api/session/status, main.py lines 89-93
GetSessionStatus(t) ==
    /\ At(t, "idle")
    /\ svc = "ready"
    /\ Set(t, [th[t] EXCEPT !.pc = "done", !.op = "status",
                            !.out = [NoOut EXCEPT !.http = 200, !.status = SessionStatus]])
    /\ UNCHANGED <<svc, shared, env_user, threads>>

\* GET /api/posts/{username}, main.py lines 127-139
StartGetPosts(t) ==
    /\ At(t, "idle")
    /\ svc = "ready"
    /\ \E n \in Targets, count \in Counts, private \in BOOLEAN :
         IF ~SessionStatus.logged_in
           THEN Set(t, [th[t] EXCEPT !.pc = "done", !.op = "posts",
                           !.out = [NoOut EXCEPT !.http = 503,
                                                 !.err = Exc("SessionMissing", "", 0)]])
           ELSE Set(t, Call([th[t] EXCEPT !.op = "posts", !.rs.username = n,
                                          !.acct.private = private,
                                          !.gp.count = count,
                                          !.gp.max_posts = Min(count, MAX_POSTS_CAP)],
                            "rs_start", "gp_resolved"))
    /\ UNCHANGED <<svc, shared, env_user, threads>>

\* GET /api/stories/{username}, main.py lines 96-108
StartGetStories(t) ==
    /\ At(t, "idle")
    /\ svc = "ready"
    /\ \E n \in Targets, private \in BOOLEAN :
         IF ~SessionStatus.logged_in
           THEN Set(t, [th[t] EXCEPT !.pc = "done", !.op = "stories",
                           !.out = [NoOut EXCEPT !.http = 503,
                                                 !.err = Exc("SessionMissing", "", 0)]])
           ELSE Set(t, Call([th[t] EXCEPT !.op = "stories", !.rs.username = n,
                                          !.acct.private = private],
                            "rs_start", "gs_resolved"))
    /\ UNCHANGED <<svc, shared, env_user, threads>>

\* main.py lines 109-112 and 140-143: an exception of the service becomes
\* an error response
Raise(t) ==
    /\ At(t, "raise")
    /\ Set(t, [th[t] EXCEPT !.pc = "done",
                            !.out = [NoOut EXCEPT !.http = HttpFor(th[t].exc.kind),
                                                  !.err = th[t].exc]])
    /\ UNCHANGED <<svc, shared, env_user, threads>>

\* the response is sent; the thread serves the next request
Done(t) ==
    /\ At(t, "done")
    /\ Set(t, IdleThread)
    /\ UNCHANGED <<svc, shared, env_user, threads>>

-----------------------------------------------------------------------------
(* proxy_media of main.py *)

\* the labels host names are built from; a label is written as the words it
\* is made of, so that "cdninstagram" contains "instagram" as the string does
HostLabels ==
    {<<"scontent">>, <<"instagram">>, <<"cdn", "instagram">>, <<"fb", "cdn">>,
     <<"evil">>, <<"com">>, <<"net">>}

Hostnames == UNION {[1..n -> HostLabels] : n \in 0..MaxLabels}

Urls == [scheme : {"https", "http"}, hostname : Hostnames]

\* the host name as one string: its labels joined by dots
RECURSIVE HostString(_)
HostString(labels) ==
    IF Len(labels) = 0 THEN <<>>
    ELSE IF Len(labels) = 1 THEN labels[1]
    ELSE labels[1] \o <<".">> \o HostString(Tail(labels))

\* Python's d in s for strings
IsInfix(d, s) ==
    \E i \in 0..(Len(s) - Len(d)) : SubSeq(s, i + 1, i + Len(d)) = d

\* allowed = ("scontent", "instagram", "cdninstagram", "fbcdn")
Allowed == {<<"scontent">>, <<"instagram">>, <<"cdn", "instagram">>, <<"fb", "cdn">>}

\* any(domain in hostname for domain in allowed)
HostAllowed(hostname) == \E domain \in Allowed : IsInfix(domain, HostString(hostname))

\* proxy_media, lines 164-173: the two tests that precede the fetch
ProxyMedia(t) ==
    /\ At(t, "idle")
    /\ \E url \in Urls :
         LET r == [th[t] EXCEPT !.op = "proxy", !.url = url] IN
         IF url.scheme # "https" \/ ~HostAllowed(url.hostname)
           THEN Set(t, [r EXCEPT !.pc = "done", !.out.http = 400])
           ELSE Set(t, [r EXCEPT !.pc = "px_fetch"])
    /\ UNCHANGED <<svc, shared, env_user, threads>>

\* proxy_media, lines 175-191: client.get(url) and the streamed response
ProxyFetch(t) ==
    /\ At(t, "px_fetch")
    /\ \E fetched \in BOOLEAN :
         Set(t, [th[t] EXCEPT !.pc = "done", !.out.http = IF fetched THEN 200 ELSE 502])
    /\ UNCHANGED <<svc, shared, env_user, threads>>

-----------------------------------------------------------------------------
(* The specifications *)

\* the code every route runs: session management, API helper, resolver
Service(t) ==
    \/ GetStoryService(t)
    \/ BootDone(t)
    \/ LoadSessionStart(t)
    \/ LoadSessionNoFiles(t)
    \/ LoadSessionLoad(t)
    \/ LoadSessionFin(t)
    \/ TryLoginStart(t)
    \/ TryLoginLogin(t)
    \/ TryLoginSet(t)
    \/ TryLoginSave(t)
    \/ RefreshStart(t)
    \/ RefreshAfterLogin(t)
    \/ RefreshLoad(t)
    \/ RefreshFail(t)
    \/ ApiSend(t)
    \/ ApiCheck(t)
    \/ ApiAfterRefresh(t)
    \/ ApiRetry(t)
    \/ ApiFin(t)
    \/ ResolveStart(t)
    \/ ResolveM1(t)
    \/ ResolveM2(t)
    \/ ResolveM2Ret(t)
    \/ ResolveM3(t)
    \/ ResolveEnd(t)
    \/ EnrichStart(t)
    \/ EnrichRet(t)
    \/ Raise(t)
    \/ Done(t)

\* the stories route, in every environment
Next ==
    \E t \in threads :
        \/ Service(t)
        \/ StartGetStories(t)
        \/ GetStoriesResolved(t)
        \/ GetStoriesReels(t)
        \/ GetStoriesReturn(t)

Spec == Init /\ [][Next]_vars

\* the posts route, started with an empty session directory or with a
\* session file of another account, and with credentials in the environment
\* or not
InitPosts ==
    /\ Init
    /\ files["me"] = NoFile
    /\ files["old"].present => files["old"].good

NextPosts ==
    \E t \in threads :
        \/ Service(t)
        \/ StartGetPosts(t)
        \/ GetPostsResolved(t)
        \/ GetPostsLoop(t)
        \/ GetPostsPage(t)
        \/ GetPostsReturn(t)

SpecPosts == InitPosts /\ [][NextPosts]_vars

\* the thread of the pool that runs the route keeps running: it is not
\* suspended for ever while it has a step to take
SpecPostsFair == SpecPosts /\ WF_vars(NextPosts)

\* the parsers of payload items alone, run on every item of PayloadItems;
\* no session is needed
InitMedia ==
    /\ Init
    /\ files = [o \in Owners |-> NoFile]
    /\ env_user = ""

NextMedia ==
    \E t \in threads :
        \/ ParsePost(t)
        \/ ParseStory(t)
        \/ Done(t)

SpecMedia == InitMedia /\ [][NextMedia]_vars

\* calls of optimize_image, one after the other
NextOptimize ==
    \E t \in threads :
        \/ OptimizeImage(t)
        \/ Done(t)

SpecOptimize == InitMedia /\ [][NextOptimize]_vars

\* the media proxy alone, called with every url of Urls
NextProxy ==
    \E t \in threads :
        \/ ProxyMedia(t)
        \/ ProxyFetch(t)
        \/ Done(t)

SpecProxy == InitMedia /\ [][NextProxy]_vars

\* both routes, started with an empty session directory or with a session
\* file of another account, and with credentials in the environment or not
InitRoutes ==
    /\ Init
    /\ files["me"] = NoFile
    /\ files["old"].present => files["old"].good

NextRoutes ==
    \E t \in threads :
        \/ Service(t)
        \/ StartGetStories(t)
        \/ GetStoriesResolved(t)
        \/ GetStoriesReels(t)
        \/ GetStoriesReturn(t)
        \/ StartGetPosts(t)
        \/ GetPostsResolved(t)
        \/ GetPostsLoop(t)
        \/ GetPostsPage(t)
        \/ GetPostsReturn(t)
        \/ GetSessionStatus(t)

SpecRoutes == InitRoutes /\ [][NextRoutes]_vars

\* the event loop alone: lifespan, then the keepalive loop until shutdown
InitTimer ==
    /\ InitService
    /\ threads = {"timer"}

\* the steps of the keepalive task itself
TimerStep(t) ==
    \/ GetStoryService(t)
    \/ BootDone(t)
    \/ LoadSessionStart(t)
    \/ LoadSessionNoFiles(t)
    \/ LoadSessionLoad(t)
    \/ LoadSessionFin(t)
    \/ TryLoginStart(t)
    \/ TryLoginLogin(t)
    \/ TryLoginSet(t)
    \/ TryLoginSave(t)
    \/ RefreshStart(t)
    \/ RefreshAfterLogin(t)
    \/ RefreshLoad(t)
    \/ RefreshFail(t)
    \/ KeepaliveStart(t)
    \/ KeepalivePing(t)
    \/ KeepaliveAfterRefresh(t)
    \/ StartKeepaliveLoop(t)
    \/ KeepaliveLoopWake(t)
    \/ KeepaliveLoopGet(t)
    \/ KeepaliveLoopAfter(t)
    \/ KeepaliveLoopExcept(t)

NextTimer ==
    \E t \in threads :
        \/ TimerStep(t)
        \/ CancelKeepaliveLoop(t)

SpecTimer == InitTimer /\ [][NextTimer]_vars

\* the session directory is shared with the operating system and with
\* setup_session.py: a session file that could be read can stop being
\* readable while the service runs, which is what the except clause of
\* _refresh_session (lines 164-165) is there for
SessionFileDamaged(o) ==
    /\ files[o].present
    /\ files[o].good
    /\ files' = [files EXCEPT ![o].good = FALSE]
    /\ UNCHANGED <<svc, loaded, session_username, needs_manual_refresh, cookie,
                   nlogin, env_user, threads, th>>

\* the keepalive task with session files that may become unreadable
NextRefresh ==
    \/ \E t \in threads : TimerStep(t)
    \/ \E o \in Owners : SessionFileDamaged(o)

SpecRefresh == InitTimer /\ [][NextRefresh]_vars

\* a request for stories on a thread of the pool while the keepalive task
\* runs on the event loop; lifespan has loaded the session of the file "old",
\* the environment holds no credentials: _try_login returns at line 108 and
\* a refresh reloads the file
InitConcurrent ==
    /\ svc = "ready"
    /\ loaded = TRUE
    /\ session_username = "old"
    /\ needs_manual_refresh = FALSE
    /\ cookie = 2
    /\ files = [o \in Owners |->
                  IF o = "old"
                    THEN [present |-> TRUE, mtime |-> 2, cookie |-> 2, good |-> TRUE]
                    ELSE NoFile]
    /\ env_user = ""
    /\ nlogin = 0
    /\ threads = {"main", "timer"}
    /\ th = [t \in AllThreads |-> IdleThread]

NextConcurrent ==
    \E t \in threads :
        \/ TryLoginStart(t)
        \/ RefreshStart(t)
        \/ RefreshAfterLogin(t)
        \/ RefreshLoad(t)
        \/ ApiSend(t)
        \/ ApiCheck(t)
        \/ ApiAfterRefresh(t)
        \/ ApiRetry(t)
        \/ ApiFin(t)
        \/ ResolveStart(t)
        \/ ResolveM1(t)
        \/ ResolveM2(t)
        \/ ResolveM2Ret(t)
        \/ ResolveM3(t)
        \/ ResolveEnd(t)
        \/ EnrichStart(t)
        \/ EnrichRet(t)
        \/ Raise(t)
        \/ Done(t)
        \/ t = "main" /\ StartGetStories(t)
        \/ GetStoriesResolved(t)
        \/ GetStoriesReels(t)
        \/ GetStoriesReturn(t)
        \/ KeepaliveStart(t)
        \/ KeepalivePing(t)
        \/ KeepaliveAfterRefresh(t)
        \/ StartKeepaliveLoop(t)
        \/ KeepaliveLoopWake(t)
        \/ KeepaliveLoopGet(t)
        \/ KeepaliveLoopAfter(t)
        \/ KeepaliveLoopExcept(t)
        \/ CancelKeepaliveLoop(t)

SpecConcurrent == InitConcurrent /\ [][NextConcurrent]_vars

\* requests on a thread of the pool and the keepalive task on the event
\* loop, as in SpecConcurrent, with a session file that may become
\* unreadable: a refresh then fails and leaves the session unloaded
NextUnloaded ==
    \/ NextConcurrent
    \/ \E t \in threads : RefreshFail(t)
    \/ \E t \in threads : t = "main" /\ GetSessionStatus(t)
    \/ \E o \in Owners : SessionFileDamaged(o)

SpecUnloaded == InitConcurrent /\ [][NextUnloaded]_vars

\* every call the task makes returns (requests have a timeout), and the
\* sleep ends after KEEPALIVE_INTERVAL unless the task is cancelled
SpecTimerFair == SpecTimer /\ WF_vars(\E t \in threads : TimerStep(t))

-----------------------------------------------------------------------------
(* Properties of _api_get / _api_post *)

\* the call of thread t has ended (returned or raised), its caller has not
\* yet looked at the outcome
ApiEnded(t) == th[t].api.result # "none"
\* C1 as stated: a call whose first response is 401 or 403 makes exactly one
\* refresh attempt and reissues the request exactly once; a second 401/403 is
\* surfaced as the upstream error.
C1_RefreshOnceAndReissueOnce ==
    \A t \in threads :
        (ApiEnded(t) /\ th[t].api.first \in {401, 403}) =>
            /\ th[t].api.nref = 1
            /\ th[t].api.nreq = 2
            /\ (th[t].api.status \in {401, 403} => th[t].api.result = "upstream")

\* C1 amended: a call whose first response is 401 or 403 makes exactly one
\* refresh attempt; it reissues the request exactly once if that refresh
\* succeeded and not at all if it failed; a 401/403 answer to the reissued
\* request is surfaced as the upstream error; no call ever makes a second
\* refresh attempt or a third request.
C1_RefreshOnceReissueIfRefreshed ==
    \A t \in threads :
        /\ th[t].api.nref <= 1
        /\ th[t].api.nreq <= 2
        /\ (ApiEnded(t) /\ th[t].api.first \in {401, 403}) =>
              /\ th[t].api.nref = 1
              /\ th[t].api.nreq = IF th[t].api.rfok THEN 2 ELSE 1
              /\ (th[t].api.status \in {401, 403} =>
                    /\ th[t].api.result = "upstream"
                    /\ ApiError(th[t].api).code = th[t].api.status)
        /\ (ApiEnded(t) /\ th[t].api.first \notin {401, 403}) =>
              (th[t].api.nref = 0 /\ th[t].api.nreq = 1)

\* a call answered 401, refreshed, reissued and answered 403: surfaced
C1_Witness ==
    \E t \in threads :
        /\ ApiEnded(t)
        /\ th[t].api.first = 401
        /\ th[t].api.rfok
        /\ th[t].api.nreq = 2
        /\ th[t].api.status = 403
        /\ th[t].api.result = "upstream"

\* C2: a 429 response, first or reissued, is followed by no refresh and no
\* further request of the call, and the call ends with the rate-limit error.
C2_RateLimitIsTerminal ==
    LET ApiPending(t) == th[t].api.method # "" /\ th[t].api.result = "none"
    IN
    \A t \in threads :
        th[t].api.status = 429 =>
            /\ ApiPending(t) => th[t].pc \in {"api_chk", "api_fin"}
            /\ ApiEnded(t) => th[t].api.result = "rate_limit"
            /\ th[t].api.nreq = IF th[t].api.first = 429 THEN 1 ELSE 2
            /\ th[t].api.first = 429 => th[t].api.nref = 0

\* a reissued request answered 429 ends the call with the rate-limit error
C2_Witness ==
    \E t \in threads :
        /\ ApiEnded(t)
        /\ th[t].api.first = 403
        /\ th[t].api.nreq = 2
        /\ th[t].api.status = 429
        /\ th[t].api.result = "rate_limit"

\* C3: when the first response is 401 or 403 and the refresh fails, the
\* request is not reissued and the call fails with the upstream error that
\* carries the original status code.
C3_FailedRefreshSurfacesOriginal ==
    \A t \in threads :
        (th[t].api.first \in {401, 403} /\ th[t].api.nref = 1 /\ ~th[t].api.rfok) =>
            /\ th[t].api.nreq = 1
            /\ th[t].pc # "api_retry"
            /\ ApiEnded(t) =>
                  /\ th[t].api.result = "upstream"
                  /\ ApiError(th[t].api) = Exc("UpstreamError", "", th[t].api.first)

\* a call answered 403 whose refresh failed has ended with HTTP 403
C3_Witness ==
    \E t \in threads :
        /\ ApiEnded(t)
        /\ th[t].api.first = 403
        /\ th[t].api.nref = 1
        /\ ~th[t].api.rfok
        /\ needs_manual_refresh
        /\ ApiError(th[t].api).code = 403

\* C4: when _refresh_session returns success, by re-login or by reloading the
\* most recent session file, the session is loaded, has an owning user name,
\* and the session store holds that session under that name.
C4_RefreshedSessionIsStored ==
    \A t \in threads :
        th[t].rf.result = "ok" =>
            /\ th[t].ret
            /\ loaded
            /\ session_username # ""
            /\ files[session_username].present
            /\ files[session_username].cookie = cookie
            /\ th[t].rf.via = "login" => session_username = env_user

\* a refresh that succeeded by reloading the file after the re-login failed
C4_Witness ==
    \E t \in threads :
        /\ th[t].rf.result = "ok"
        /\ th[t].rf.via = "file"
        /\ env_user # ""
        /\ session_username = "old"

-----------------------------------------------------------------------------
(* Properties of _resolve_user *)

\* the labels _resolve_user returns to
ResolveReturns == {"gp_resolved", "gs_resolved"}

Resolved(t) == th[t].pc \in ResolveReturns

\* C5: if a strategy raises NotFound, no later strategy is run and the caller
\* receives NotFound at once.
C5_NotFoundShortCircuits ==
    \A t \in threads :
        \A i \in DOMAIN th[t].rs.log :
            th[t].rs.log[i].outcome = "not_found" =>
                /\ i = Len(th[t].rs.log)
                /\ Len(th[t].rs.tried) = i
                /\ Resolved(t)
                /\ th[t].exc = Exc("NotFound", th[t].rs.username, 0)

\* the profile lookup said the profile does not exist: nothing else was tried
C5_Witness ==
    \E t \in threads :
        /\ Resolved(t)
        /\ th[t].rs.tried = <<1>>
        /\ th[t].rs.log[1].outcome = "not_found"
        /\ th[t].exc.kind = "NotFound"

\* C6: the strategies run in the order profile lookup, search, page scrape;
\* the Identity of the first strategy that succeeds is returned and no later
\* strategy runs.
C6_FirstSuccessWins ==
    \A t \in threads :
        LET rs == th[t].rs IN
        /\ rs.tried = SubSeq(<<1, 2, 3>>, 1, Len(rs.tried))
        /\ Len(rs.log) <= Len(rs.tried)
        /\ \A i \in DOMAIN rs.log :
              /\ rs.log[i].k = i
              /\ rs.log[i].outcome = "found" =>
                    /\ i = Len(rs.log)
                    /\ Len(rs.tried) = i
                    /\ Resolved(t)
                    /\ th[t].exc = NoExc
                    /\ th[t].user # NoUser
                    /\ Lower(th[t].user.username) = Lower(rs.username)
                    /\ i = 3 => (th[t].user.username = rs.username /\ ~th[t].user.is_private)
        /\ (Resolved(t) /\ th[t].exc = NoExc) =>
              (rs.log # <<>> /\ rs.log[Len(rs.log)].outcome = "found")

\* the first two strategies failed and the page scrape produced the Identity
C6_Witness ==
    \E t \in threads :
        /\ Resolved(t)
        /\ Len(th[t].rs.log) = 3
        /\ th[t].rs.log[3].outcome = "found"
        /\ th[t].user.user_id = 1

\* C7: a strategy that fails with an error other than NotFound does not end
\* the resolution: the next strategy in order is run.
C7_OtherErrorsFallThrough ==
    \A t \in threads :
        LET rs == th[t].rs IN
        \A i \in DOMAIN rs.log :
            (rs.log[i].outcome = "error" /\ i < 3) =>
                \/ th[t].pc = Following(i) /\ th[t].exc = NoExc
                \/ Len(rs.tried) >= i + 1 /\ rs.tried[i + 1] = i + 1

\* the search call was rate limited and the page scrape ran after it
C7_Witness ==
    \E t \in threads :
        /\ Len(th[t].rs.log) >= 2
        /\ th[t].rs.log[1].outcome = "error"
        /\ th[t].rs.log[2].outcome = "error"
        /\ th[t].rs.log[2].why = "rate_limit"
        /\ th[t].rs.tried = <<1, 2, 3>>

\* C8: when all three strategies are exhausted without a match, _resolve_user
\* fails with NotFound naming the requested user; it returns no Identity.
C8_ExhaustedIsNotFound ==
    \A t \in threads :
        LET rs == th[t].rs IN
        /\ th[t].pc = "rs_end" => th[t].user = NoUser
        /\ (Resolved(t) /\ Len(rs.log) = 3 /\ rs.log[3].outcome # "found") =>
              /\ th[t].exc = Exc("NotFound", rs.username, 0)
              /\ th[t].user = NoUser

\* no strategy matched: the scrape got a page without a user id
C8_Witness ==
    \E t \in threads :
        /\ Resolved(t)
        /\ Len(th[t].rs.log) = 3
        /\ th[t].rs.log[2].outcome = "no_match"
        /\ th[t].rs.log[3].outcome = "no_match"
        /\ th[t].exc = Exc("NotFound", "Alice", 0)

-----------------------------------------------------------------------------
(* Properties of get_posts *)

\* C9 as stated: get_posts performs at most ceil(requested_count / page_size)
\* feed page fetches, whatever pages the server sends.
C9_FetchesBoundedByCeil ==
        \* ceil(n / PAGE_SIZE)
    LET Ceil(n) == (n + PAGE_SIZE - 1) \div PAGE_SIZE
    IN
    \A t \in threads : th[t].gp.fetches <= Ceil(th[t].gp.max_posts)

\* C9 amended: get_posts fetches a feed page only while it holds fewer than
\* requested_count items; it performs at most ceil(requested_count / page_size)
\* fetches of pages that yield page_size items or more, so the bound holds for
\* all its fetches when every page that came back was such a page.
C9_FullPageFetchesBoundedByCeil ==
    LET ApiPending(t) == th[t].api.method # "" /\ th[t].api.result = "none"
        \* ceil(n / PAGE_SIZE)
        Ceil(n) == (n + PAGE_SIZE - 1) \div PAGE_SIZE
        \* the feed page requests of the call that have come back
        PagesBack(t) == th[t].gp.fetches - (IF th[t].api.path = "feed" THEN 1 ELSE 0)
    IN
    \A t \in threads :
        /\ th[t].gp.full <= Ceil(th[t].gp.max_posts)
        /\ th[t].gp.full = PagesBack(t) => th[t].gp.fetches <= Ceil(th[t].gp.max_posts)
        /\ (ApiPending(t) /\ th[t].api.path = "feed") =>
              Len(th[t].gp.all_posts) < th[t].gp.max_posts

\* thirteen posts asked for, two full pages fetched
C9_Witness ==
    \E t \in threads :
        /\ th[t].gp.max_posts = MaxPosts
        /\ th[t].gp.fetches = 2
        /\ th[t].gp.full = 2
        /\ th[t].pc = "done"

\* C10: the list get_posts returns is never longer than the requested count.
C10_ReturnedAtMostRequested ==
    \A t \in threads :
        (th[t].pc = "done" /\ th[t].op = "posts" /\ th[t].out.http = 200) =>
            /\ Len(th[t].out.media) <= th[t].gp.count
            /\ Len(th[t].out.media) <= th[t].gp.max_posts
            /\ th[t].out.media = SubSeq(th[t].gp.all_posts, 1, Len(th[t].out.media))

\* one post asked for, a page with a carousel came back: the list is cut
C10_Witness ==
    \E t \in threads :
        /\ th[t].pc = "done"
        /\ th[t].op = "posts"
        /\ th[t].gp.max_posts = 1
        /\ Len(th[t].gp.all_posts) = 4
        /\ Len(th[t].out.media) = 1
        /\ th[t].out.media[1].carousel_total = 3

-----------------------------------------------------------------------------
(* Properties of the media items *)

\* C11: a carousel post with N sub-items is expanded by _parse_post_item into
\* exactly N media items; each carries the post id, the caption and the
\* timestamp of the parent, has carousel_total = N, and the k-th of them has
\* carousel_index k - 1, so that the indices run through 0..N-1 once, in order
C11_CarouselExpandsInOrder ==
        \* thread t has parsed th[t].item with _parse_post_item
    LET ParsedPost(t) == th[t].pc = "done" /\ th[t].op = "parse_post"
    IN
    \A t \in threads :
        (ParsedPost(t) /\ th[t].item.media_type = 8) =>
            LET item == th[t].item
                n == Len(item.carousel)
                media == th[t].out.media
            IN  /\ Len(media) = n
                /\ \A k \in 1..n :
                      /\ media[k].post_id = item.pk
                      /\ media[k].caption = CaptionText(item)
                      /\ media[k].timestamp = IsoFormat(item.taken_at)
                      /\ media[k].carousel_total = n
                      /\ media[k].carousel_index = k - 1

\* a carousel of three sub-items has been expanded
C11_Witness ==
        \* thread t has parsed th[t].item with _parse_post_item
    LET ParsedPost(t) == th[t].pc = "done" /\ th[t].op = "parse_post"
    IN
    \E t \in threads :
        /\ ParsedPost(t)
        /\ th[t].item.media_type = 8
        /\ Len(th[t].item.carousel) = 3
        /\ Len(th[t].out.media) = 3
        /\ th[t].out.media[3].carousel_index = 2

\* C12: every media item produced by _parse_story_item or _extract_media is a
\* video exactly if its source had a video variant; a video takes its
\* thumbnail from the image variants of the source (it has none where the
\* source has no image variant); an item that is not a video has no thumbnail
\* and its url is the first image variant of the source (the empty string
\* where the source has no image variant)
C12_KindFollowsVideoVariant ==
        \* thread t has parsed th[t].item with either parser
    LET Parsed(t) == th[t].pc = "done" /\ th[t].op \in {"parse_post", "parse_story"}
        \* the media item number k came from this part of the payload item
        SourceOf(t, k) ==
            IF th[t].op = "parse_post" /\ th[t].item.media_type = 8
              THEN th[t].item.carousel[k] ELSE th[t].item
    IN
    \A t \in threads :
        Parsed(t) =>
            \A k \in 1..Len(th[t].out.media) :
                LET src == SourceOf(t, k)
                    m == th[t].out.media[k]
                IN  /\ (m.media_type = "video") <=> (src.video_versions # NoVariants)
                    /\ m.media_type \in {"video", "image"}
                    /\ m.media_type = "video" =>
                          /\ m.url = src.video_versions[1]
                          /\ IF src.image_versions = NoVariants
                               THEN m.thumbnail_url = "None"
                               ELSE m.thumbnail_url = src.image_versions[1]
                    /\ m.media_type = "image" =>
                          /\ m.thumbnail_url = "None"
                          /\ IF src.image_versions = NoVariants
                               THEN m.url = ""
                               ELSE m.url = src.image_versions[1]

\* a carousel has been expanded whose first medium is a video with a
\* thumbnail and whose second is a plain image
C12_Witness ==
        \* thread t has parsed th[t].item with _parse_post_item
    LET ParsedPost(t) == th[t].pc = "done" /\ th[t].op = "parse_post"
    IN
    \E t \in threads :
        /\ ParsedPost(t)
        /\ th[t].item.media_type = 8
        /\ Len(th[t].out.media) >= 2
        /\ th[t].out.media[1].media_type = "video"
        /\ th[t].out.media[1].url = "v1"
        /\ th[t].out.media[1].thumbnail_url = "i1"
        /\ th[t].out.media[2].media_type = "image"
        /\ th[t].out.media[2].url = "i1"
        /\ th[t].out.media[2].thumbnail_url = "None"

-----------------------------------------------------------------------------
(* Properties of the routes *)

\* thread t serves a request for stories or posts
Serving(t) == th[t].op \in {"stories", "posts"}

\* C13: a request for the stories or the posts of a private account issues no
\* media fetch (reels lookup, feed page, user-info enrichment), and once the
\* resolver has produced an Identity, by whichever strategy, the request
\* ends in PrivateAccount
C13_PrivateAccountFailsBeforeFetch ==
        \* the paths get_stories and get_posts fetch media and profile data from
    LET MediaFetches == {"reels", "feed", "info"}
        \* the response of thread t is ready
        Responded(t) == Serving(t) /\ th[t].pc = "done"
    IN
    \A t \in threads :
        (Serving(t) /\ th[t].acct.private) =>
            /\ th[t].api.path \notin MediaFetches
            /\ (Responded(t) /\ th[t].user # NoUser) =>
                  th[t].out.err.kind = "PrivateAccount"

\* C14: with an empty session directory and no credentials in the
\* environment load_session returns False, session_status reports
\* logged_in = false, and every get_stories / get_posts request ends in
\* SessionMissing without a result
C14_NoSessionMeansSessionMissing ==
        \* the response of thread t is ready
    LET Responded(t) == Serving(t) /\ th[t].pc = "done"
        \* the session directory is empty and the environment holds no credentials
        NoSessionAnywhere == SessionFiles(files) = {} /\ env_user = ""
    IN
    NoSessionAnywhere =>
        /\ ~SessionStatus.logged_in
        /\ \A t \in threads :
              /\ th[t].pc = "boot_done" => ~th[t].ret
              /\ (th[t].pc = "done" /\ th[t].op = "status") => ~th[t].out.status.logged_in
              /\ Responded(t) =>
                    /\ th[t].out.err.kind = "SessionMissing"
                    /\ th[t].out.http # 200
                    /\ th[t].out.media = <<>>

\* a request for posts has been answered with SessionMissing in that
\* environment
C14_Witness ==
        \* the response of thread t is ready
    LET Responded(t) == Serving(t) /\ th[t].pc = "done"
        \* the session directory is empty and the environment holds no credentials
        NoSessionAnywhere == SessionFiles(files) = {} /\ env_user = ""
    IN
    /\ NoSessionAnywhere
    /\ svc = "ready"
    /\ \E t \in threads :
          /\ Responded(t)
          /\ th[t].op = "posts"
          /\ th[t].out.err.kind = "SessionMissing"

-----------------------------------------------------------------------------
(* Properties of the session *)

\* C15: no request goes out to the server (the re-login apart) in a step
\* taken while no session is loaded, a failed refresh earlier in the same
\* operation included
C15_NoRequestWithoutSession ==
    [][LET Sends(t) ==
               \/ th'[t].api.nreq = th[t].api.nreq + 1
               \/ th[t].pc \in {"rs_m1", "rs_m3", "ka_ping"} /\ th'[t].pc # th[t].pc
       IN  \A t \in threads : Sends(t) => loaded]_vars

-----------------------------------------------------------------------------
(* Properties of the error handling *)

\* C16: an error of the taxonomy that arose from an upstream call during a
\* get_stories or get_posts request is never followed by a successful
\* response of that request: the response is an error response
C16_UpstreamErrorsReachBoundary ==
        \* the response of thread t is ready
    LET Responded(t) == Serving(t) /\ th[t].pc = "done"
    IN
    \A t \in threads :
        (Responded(t) /\ th[t].caught) => th[t].out.http # 200

-----------------------------------------------------------------------------
(* Properties of the keepalive loop *)

\* the task of thread t is inside the while loop of _keepalive_loop: at one
\* of its own statements or in a call made from it
LoopRuns(t) ==
    /\ th[t].op = "keepalive"
    /\ th[t].stack # <<>> \/ th[t].pc \in {"kl_sleep", "kl_get", "kl_after", "kl_except"}

\* C17: the keepalive loop never ends because a tick failed: it ends only
\* by the cancellation at shutdown, which reaches it in its sleep, and
\* after every failing tick it sleeps again and then ticks again unless it
\* is cancelled
C17_KeepaliveLoopSurvivesFailures ==
    /\ [](\A t \in threads :
            (th[t].op = "keepalive" /\ ~LoopRuns(t)) => th[t].pc = "kl_cancelled")
    /\ [][\A t \in threads :
            (LoopRuns(t) /\ ~LoopRuns(t)') =>
                (th[t].pc = "kl_sleep" /\ th'[t].pc = "kl_cancelled")]_vars
    /\ \A t \in AllThreads :
          /\ (/\ t \in threads
              /\ \/ th[t].pc = "kl_after" /\ ~th[t].ret
                 \/ th[t].pc = "kl_except")
                ~> (th[t].pc = "kl_sleep" /\ th[t].tick \in {"failed", "error"})
          /\ (th[t].pc = "kl_sleep" /\ th[t].tick \in {"failed", "error"})
                ~> (th[t].pc \in {"kl_get", "kl_cancelled"})

\* the loop ticks again after a tick in which the refresh failed
C17_Witness ==
    \E t \in threads :
        /\ th[t].pc = "kl_get"
        /\ th[t].tick = "failed"
        /\ needs_manual_refresh
        /\ ~loaded

-----------------------------------------------------------------------------
(* Properties of concurrent refreshes *)

\* C18: refresh attempts are not mutually excluded: a thread that has called
\* _refresh_session begins its body whatever the other threads are doing, so
\* that two executions of _refresh_session can be in progress at once (the
\* state of C18_Witness)
C18_RefreshIsNotExcluded ==
    \A t \in threads : At(t, "rf_start") => ENABLED RefreshStart(t)

\* the request handler and the keepalive task are both inside
\* _refresh_session
C18_Witness ==
        \* thread u is executing the body of _refresh_session
    LET InRefresh(u) ==
            /\ u \in threads
            /\ \/ th[u].pc \in {"rf_after_login", "rf_load", "rf_fail"}
               \/ \E i \in 1..Len(th[u].stack) : th[u].stack[i] = "rf_after_login"
    IN
    /\ InRefresh("main")
    /\ InRefresh("timer")
    /\ th["main"].op = "stories"
    /\ th["timer"].op = "keepalive"

-----------------------------------------------------------------------------
(* Properties of the media proxy *)

\* C19: the media proxy fetches only https urls whose host name lies on a
\* known CDN domain; every other url is answered with an error and no fetch
\* is made for it
C19_ProxyFetchesOnlyCdn ==
        \* the host name lies on a known CDN domain: the label in front of its
        \* top-level domain is instagram, cdninstagram or fbcdn
    LET OnCdnDomain(hostname) ==
            /\ Len(hostname) >= 2
            /\ hostname[Len(hostname) - 1] \in {<<"instagram">>, <<"cdn", "instagram">>, <<"fb", "cdn">>}
    IN
    \A t \in threads :
        th[t].op = "proxy" =>
            LET ok == th[t].url.scheme = "https" /\ OnCdnDomain(th[t].url.hostname) IN
            /\ th[t].pc = "px_fetch" => ok
            /\ (th[t].pc = "done" /\ ~ok) => th[t].out.http = 400

-----------------------------------------------------------------------------
(* Properties of _refresh_session *)

\* C20: _refresh_session first attempts the re-login with credentials; it
\* attempts to reload a session file only if that re-login failed, and the
\* file it then takes is a most recently modified one; it returns False,
\* having set needs_manual_refresh, only when the re-login failed and no
\* session file could be reloaded, and True in every other case
C20_ReloginThenFileThenFailure ==
        \* the execution of _refresh_session by thread t has ended, its caller has
        \* not yet looked at the outcome
    LET RefreshEnded(t) == th[t].rf.result # "none"
    IN
    \A t \in threads :
        LET steps == th[t].rf.steps IN
        /\ At(t, "rf_load") =>
              /\ steps = <<"login", "login_failed", "file">>
              /\ th[t].rf.sel \in MostRecent(files)
        /\ At(t, "rf_fail") =>
              steps \in {<<"login", "login_failed">>,
                         <<"login", "login_failed", "file", "file_failed">>}
        /\ (RefreshEnded(t) /\ th[t].rf.result = "ok") =>
              /\ steps \in {<<"login", "login_ok">>,
                            <<"login", "login_failed", "file", "file_ok">>}
              /\ th[t].ret
        /\ (RefreshEnded(t) /\ th[t].rf.result = "failed") =>
              /\ steps \in {<<"login", "login_failed">>,
                            <<"login", "login_failed", "file", "file_failed">>}
              /\ ~th[t].ret
              /\ needs_manual_refresh

\* a refresh has failed after the re-login failed and the most recent
\* session file could not be loaded
C20_Witness ==
        \* the execution of _refresh_session by thread t has ended, its caller has
        \* not yet looked at the outcome
    LET RefreshEnded(t) == th[t].rf.result # "none"
    IN
    \E t \in threads :
        /\ RefreshEnded(t)
        /\ th[t].rf.result = "failed"
        /\ th[t].rf.steps = <<"login", "login_failed", "file", "file_failed">>
        /\ needs_manual_refresh
        /\ env_user # ""

-----------------------------------------------------------------------------
(* Properties of the pagination of get_posts *)

\* C21: the first feed page is requested without max_id; every later page is
\* requested with the next_max_id of the page fetched just before, and only
\* if that page reported more_available with a token present and fewer media
\* items than max_posts have been gathered
C21_PagesChainedByToken ==
        \* thread t has a request for a feed page under way, the n-th of its call of
        \* get_posts
    LET FetchingPage(t, n) ==
            /\ t \in threads
            /\ th[t].op = "posts"
            /\ th[t].api.path = "feed"
            /\ th[t].gp.fetches = n
    IN
    \A t \in threads :
        /\ FetchingPage(t, 1) => th[t].api.param = 0
        /\ \A n \in 2..(MaxFetch + 1) :
              FetchingPage(t, n) =>
                /\ th[t].gp.page.more_available
                /\ th[t].gp.page.next_max_id # 0
                /\ th[t].api.param = th[t].gp.page.next_max_id
        /\ (\E n \in 1..(MaxFetch + 1) : FetchingPage(t, n)) =>
              Len(th[t].gp.all_posts) < Min(th[t].gp.count, MAX_POSTS_CAP)

\* the second page is being requested with the token 2 of the first page
C21_Witness ==
        \* thread t has a request for a feed page under way, the n-th of its call of
        \* get_posts
    LET FetchingPage(t, n) ==
            /\ t \in threads
            /\ th[t].op = "posts"
            /\ th[t].api.path = "feed"
            /\ th[t].gp.fetches = n
    IN
    \E t \in threads :
        /\ FetchingPage(t, 2)
        /\ th[t].api.param = 2
        /\ th[t].gp.page.next_max_id = 2
        /\ th[t].api.nreq > 0

-----------------------------------------------------------------------------
(* Properties of the search strategy of _resolve_user *)

\* C22: when the search strategy ends with an identity, that identity is
\* taken from a returned candidate whose user name equals the requested one
\* ignoring case; when no returned candidate has such a name the strategy
\* ends without an identity and the page scrape is the next thing to run
C22_SearchAcceptsOnlyExactName ==
        \* the search of thread t has been answered with a list of candidates and
        \* strategy 2 has just ended: the last entry of the log is its outcome
    LET SearchAnswered(t) ==
            /\ t \in threads
            /\ th[t].rs.log # <<>>
            /\ LET e == th[t].rs.log[Len(th[t].rs.log)] IN
                 /\ e.k = 2
                 /\ e.outcome \in {"found", "no_match"} \/ e.why = "KeyError"
        \* candidate c carries the requested user name n, letter case apart
        NamesAlike(c, n) == Lower(c.username) = Lower(n)
    IN
    \A t \in threads :
        SearchAnswered(t) =>
            LET e == th[t].rs.log[Len(th[t].rs.log)]
                users == th[t].rs.users
                n == th[t].rs.username
            IN  /\ e.outcome = "found" =>
                      \E i \in 1..Len(users) :
                          /\ NamesAlike(users[i], n)
                          /\ th[t].user.username = users[i].username
                          /\ th[t].user.user_id = users[i].pk
                /\ (\A i \in 1..Len(users) : ~NamesAlike(users[i], n)) =>
                      /\ e.outcome = "no_match"
                      /\ th[t].user = NoUser
                      /\ th[t].exc = NoExc
                      /\ th[t].pc = "rs_m3"

\* "alice" was asked for; the search answered with "bob" and then "Alice",
\* and the strategy returned the identity of "Alice"
C22_Witness ==
        \* the search of thread t has been answered with a list of candidates and
        \* strategy 2 has just ended: the last entry of the log is its outcome
    LET SearchAnswered(t) ==
            /\ t \in threads
            /\ th[t].rs.log # <<>>
            /\ LET e == th[t].rs.log[Len(th[t].rs.log)] IN
                 /\ e.k = 2
                 /\ e.outcome \in {"found", "no_match"} \/ e.why = "KeyError"
    IN
    \E t \in threads :
        /\ SearchAnswered(t)
        /\ th[t].rs.username = "alice"
        /\ Len(th[t].rs.users) = 2
        /\ th[t].rs.users[1].username = "bob"
        /\ th[t].rs.users[2].username = "Alice"
        /\ th[t].user.username = "Alice"

-----------------------------------------------------------------------------
(* Properties of the choice of the session file *)

\* C23: the session file that load_session or the reload of _refresh_session
\* picks is present and no session file of the directory has a greater
\* modification time; when the file is loaded, the session is owned by the
\* user name the file is named by and holds the cookie of the file
C23_MostRecentFileWins ==
    /\ [](\A t \in threads :
            (At(t, "ls_load") \/ At(t, "rf_load")) =>
              /\ files[th[t].rf.sel].present
              /\ \A o \in Owners :
                    files[o].present => files[o].mtime <= files[th[t].rf.sel].mtime)
    /\ [][\A t \in threads :
            (\/ At(t, "ls_load") /\ th'[t].pc \in {"ls_fin", "tl_start"}
             \/ At(t, "rf_load") /\ th'[t].rf.result = "ok") =>
              /\ loaded'
              /\ session_username' = th[t].rf.sel
              /\ cookie' = files[th[t].rf.sel].cookie]_vars

\* two session files exist; a refresh has reloaded the newer one, "me", and
\* the session is owned by "me"
C23_Witness ==
    \E t \in threads :
        /\ th[t].rf.result = "ok"
        /\ th[t].rf.via = "file"
        /\ th[t].rf.sel = "me"
        /\ files["old"].present
        /\ files["old"].mtime < files["me"].mtime
        /\ session_username = "me"

-----------------------------------------------------------------------------
(* Properties of keepalive *)

\* C24: a call of keepalive sends at most one ping, and none when no session
\* is loaded as it begins (it then returns False); when the ping is answered
\* 401 or 403 it calls _refresh_session exactly once and returns what that
\* call returned; on any other answer it calls _refresh_session not at all
C24_KeepaliveRefreshesOnce ==
        \* the call of keepalive of thread t has returned to the loop, which has
        \* not yet looked at the value
    LET Ticked(t) == At(t, "kl_after") /\ th[t].ka.began
    IN
    \A t \in threads :
        /\ At(t, "ka_ping") => (th[t].ka.loaded /\ th[t].ka.pings = 0)
        /\ Ticked(t) =>
              LET ka == th[t].ka IN
              /\ ka.pings <= 1
              /\ ~ka.loaded => (ka.pings = 0 /\ ka.nref = 0 /\ ~th[t].ret)
              /\ ka.loaded => ka.pings = 1
              /\ (ka.pings = 1 /\ ka.status \in {401, 403}) =>
                    /\ ka.nref = 1
                    /\ ka.refreshed \in {"ok", "failed"}
                    /\ th[t].ret = (ka.refreshed = "ok")
              /\ (ka.pings = 1 /\ ka.status \notin {401, 403}) =>
                    /\ ka.nref = 0
                    /\ th[t].ret = (ka.status = 200)

\* a ping was answered 403 and the one refresh that followed failed: the
\* tick returns False
C24_Witness ==
        \* the call of keepalive of thread t has returned to the loop, which has
        \* not yet looked at the value
    LET Ticked(t) == At(t, "kl_after") /\ th[t].ka.began
    IN
    \E t \in threads :
        /\ Ticked(t)
        /\ th[t].ka.status = 403
        /\ th[t].ka.nref = 1
        /\ th[t].ka.refreshed = "failed"
        /\ ~th[t].ret

-----------------------------------------------------------------------------
(* Termination of get_posts *)

\* C25: a call of get_posts that has entered its pagination loop leaves the
\* loop, whatever pages the server answers with
C25_GetPostsTerminates ==
        \* thread t is inside the pagination loop of get_posts
    LET Paginating(t) ==
            /\ t \in threads
            /\ th[t].op = "posts"
            /\ \/ th[t].pc \in {"gp_loop", "gp_page"}
               \/ \E i \in 1..Len(th[t].stack) : th[t].stack[i] = "gp_page"
    IN
    \A t \in AllThreads : Paginating(t) ~> ~Paginating(t)

-----------------------------------------------------------------------------
(* The unloaded session *)

\* C26: when the session is unloaded, as a failed _refresh_session leaves it,
\* and no call is in flight, it stays so with every step: a tick returns at
\* line 192 without a ping, the routes answer SessionMissing, no thread
\* enters load_session, _try_login or _refresh_session, and logged_in is never
\* true again
C26_UnloadedForGood ==
 [][LET QuietPcs == {"idle", "done", "kl_sleep", "kl_get", "kl_except", "kl_after",
                     "kl_cancelled", "ka_start"}
        \* thread t has no call in flight that could touch the session, and what it
        \* answers says so: a route answers 503, the status says logged_in false,
        \* a tick has returned False without a ping
        Quiet(t) ==
            /\ th[t].pc \in QuietPcs
            /\ (th[t].pc = "done" /\ th[t].op \in {"stories", "posts"}) =>
                  (th[t].out.http = 503 /\ th[t].out.err.kind = "SessionMissing")
            /\ (th[t].pc = "done" /\ th[t].op = "status") => ~th[t].out.status.logged_in
            /\ th[t].pc = "kl_after" => (th[t].ka.pings = 0 /\ ~th[t].ret)
        \* the service exists, its session is unloaded and no call is in flight
        Unloaded ==
            /\ svc = "ready"
            /\ ~loaded
            /\ \A t \in threads : Quiet(t)
    IN  Unloaded => Unloaded']_vars

\* a refresh has failed; after it a request for stories was rejected with
\* SessionMissing and a tick of the keepalive loop returned without a ping
C26_Witness ==
        \* where a thread is when it is in no call of the service that began with a
        \* session: at rest, answering, or in a tick that has not passed line 191
    LET QuietPcs == {"idle", "done", "kl_sleep", "kl_get", "kl_except", "kl_after",
                     "kl_cancelled", "ka_start"}
        \* thread t has no call in flight that could touch the session, and what it
        \* answers says so: a route answers 503, the status says logged_in false,
        \* a tick has returned False without a ping
        Quiet(t) ==
            /\ th[t].pc \in QuietPcs
            /\ (th[t].pc = "done" /\ th[t].op \in {"stories", "posts"}) =>
                  (th[t].out.http = 503 /\ th[t].out.err.kind = "SessionMissing")
            /\ (th[t].pc = "done" /\ th[t].op = "status") => ~th[t].out.status.logged_in
            /\ th[t].pc = "kl_after" => (th[t].ka.pings = 0 /\ ~th[t].ret)
        \* the service exists, its session is unloaded and no call is in flight
        Unloaded ==
            /\ svc = "ready"
            /\ ~loaded
            /\ \A t \in threads : Quiet(t)
    IN
    /\ Unloaded
    /\ needs_manual_refresh
    /\ th["main"].pc = "done"
    /\ th["main"].op = "stories"
    /\ th["main"].out.http = 503
    /\ th["timer"].pc = "kl_after"
    /\ th["timer"].ka.began
    /\ th["timer"].ka.pings = 0
    /\ th["timer"].tick = "failed"

-----------------------------------------------------------------------------
(* Reads of session_status while a refresh runs *)

\* C27: with a session loaded at start-up and refreshes that all succeed, no
\* request is answered SessionMissing: every handler reads logged_in true,
\* also while another thread or the keepalive task is inside
\* _refresh_session
C27_NoRejectionDuringRefresh ==
        \* thread t has answered a request after reading session_status
    LET Answered(t) ==
            /\ t \in threads
            /\ th[t].pc = "done"
            /\ th[t].op \in {"stories", "posts"}
    IN
    \A t \in threads :
        Answered(t) =>
            /\ th[t].out.http # 503
            /\ th[t].out.err.kind # "SessionMissing"

-----------------------------------------------------------------------------
(* What session_status reports *)

\* C28: every status that session_status reports with needs_manual_refresh
\* true has logged_in false; so after a refresh that succeeded by reloading
\* the session file, the re-login having failed for two-factor or challenge
\* reasons, needs_manual_refresh is reported false
C28_ManualRefreshOnlyWhenLoggedOut ==
        \* thread t has answered GET /api/session/status
    LET StatusReported(t) ==
            /\ t \in threads
            /\ th[t].pc = "done"
            /\ th[t].op = "status"
    IN
    \A t \in threads :
        StatusReported(t) =>
            (th[t].out.status.needs_manual_refresh => ~th[t].out.status.logged_in)

-----------------------------------------------------------------------------
(* A feed page request that fails *)

\* C29: when a feed page request of get_posts has raised, no further page is
\* requested and get_posts raises nothing; the items gathered are those of
\* the pages before the failed one, in the order of the pages, and the route
\* answers 200 with these items cut to max_posts
C29_PageFailureEndsPagination ==
        \* a feed page request of the call of get_posts of thread t has raised
    LET PageFailed(t) ==
            /\ t \in threads
            /\ th[t].op = "posts"
            /\ th[t].gp.failed_at > 0
        \* the number of the feed page a media item came with (see Stamp)
        PageOf(m) == m.post_id \div 100
    IN
    \A t \in threads :
        PageFailed(t) =>
            LET gp == th[t].gp IN
            /\ th[t].pc \in {"gp_ret", "done"}
            /\ gp.fetches = gp.failed_at
            /\ th[t].exc = NoExc
            /\ \A i \in 1..Len(gp.all_posts) :
                  /\ PageOf(gp.all_posts[i]) >= 1
                  /\ PageOf(gp.all_posts[i]) < gp.failed_at
                  /\ \A j \in i..Len(gp.all_posts) :
                        gp.all_posts[i].post_id <= gp.all_posts[j].post_id
            /\ th[t].pc = "done" =>
                  /\ th[t].out.http = 200
                  /\ th[t].out.err = NoExc
                  /\ th[t].out.media =
                        SubSeq(gp.all_posts, 1, Min(Len(gp.all_posts), gp.max_posts))

\* the second page request raised; the route answers 200 with the items of
\* the first page
C29_Witness ==
        \* a feed page request of the call of get_posts of thread t has raised
    LET PageFailed(t) ==
            /\ t \in threads
            /\ th[t].op = "posts"
            /\ th[t].gp.failed_at > 0
    IN
    \E t \in threads :
        /\ PageFailed(t)
        /\ th[t].gp.failed_at = 2
        /\ th[t].pc = "done"
        /\ th[t].out.http = 200
        /\ Len(th[t].out.media) > 1
        /\ Len(th[t].out.media) < th[t].gp.max_posts

-----------------------------------------------------------------------------
(* Properties of optimize_image *)

\* C30: a call of optimize_image without WebP conversion that returns gives
\* an optimized_size that is the length of the returned data and is at most
\* original_size, the length of the input; when the encoder's bytes are not
\* shorter than the input, the returned data is the input as it was given
\* and output_format is original_format
C30_NeverLargerWithoutConversion ==
    \A t \in threads :
        (/\ th[t].pc = "done"
         /\ th[t].op = "optimize"
         /\ th[t].exc = NoExc
         /\ ~th[t].opt.convert_webp) =>
            LET o == th[t].opt
                r == th[t].opt.result
            IN  /\ r.original_size = Len(o.data)
                /\ r.optimized_size = Len(r.data)
                /\ r.optimized_size <= r.original_size
                /\ r.original_format = o.original_format
                /\ Len(o.encoded) >= Len(o.data) =>
                      /\ r.data = o.data
                      /\ r.output_format = r.original_format
                /\ Len(o.encoded) < Len(o.data) => r.data = o.encoded

\* a JPEG of two bytes was encoded to two other bytes, without conversion,
\* and the call returned the two bytes of the input
C30_Witness ==
    \E t \in threads :
        /\ th[t].pc = "done"
        /\ th[t].op = "optimize"
        /\ ~th[t].opt.convert_webp
        /\ th[t].opt.original_format = "JPEG"
        /\ th[t].opt.data = <<0, 1>>
        /\ th[t].opt.encoded = <<1, 0>>
        /\ th[t].opt.result.data = <<0, 1>>
        /\ th[t].opt.result.output_format = "JPEG"

====
